---------------------------- MODULE Spec2Model ----------------------------
(***************************************************************************)
(* Model of the terminal selection and pagination engine of rust4p         *)
(* (src/src/main.rs): the pager of cmd_annotate / annotate_viewer /        *)
(* prompt_search, the three list widgets, and the raw-mode session around  *)
(* them.                                                                   *)
(*                                                                         *)
(* Conventions.                                                            *)
(*  - A Rust String is a sequence of one-character strings.                *)
(*  - Option<T>: None is <<>>, Some(x) is <<x>>.                           *)
(*  - Indices are 0-based as in the source; a Rust vec v[i] is the TLA+    *)
(*    sequence element v[i + 1].                                           *)
(*  - A terminal operation followed by `?` either succeeds or fails; a     *)
(*    failure has no effect on the terminal and propagates the error.      *)
(*    terminal::disable_raw_mode is the release primitive itself and is    *)
(*    modelled as succeeding.                                              *)
(***************************************************************************)
EXTENDS Integers, Sequences, FiniteSets, TLC

VARIABLES
    \* ---- control and terminal session (all commands)
    pc,                 \* position of the running command
    raw_mode,           \* terminal raw input mode is enabled
    cursor_visible,     \* terminal cursor is shown
    result,             \* value returned to the command's caller
    body_result,        \* the command's `result` local: what the widget body returned
    \* ---- cmd_annotate / annotate_viewer / prompt_search
    running,            \* the AtomicBool shared with the spinner thread
    spinner,            \* position of the spinner thread ("none": not spawned)
    spin_idx,           \* the spinner thread's frame index
    lines,              \* the annotate records fetched before the viewer starts
    term_height,        \* rows reported by terminal::size()
    top_line,
    search_query,
    search_matches,
    current_match_idx,
    query,              \* prompt_search's in-progress query
    nav,                \* the run of 'n' keys (then one 'p') in progress
    \* ---- render_annotate_page: one line of text on its way to the terminal
    text,               \* the formatted line (or status text), glyph by glyph
    term_width,         \* columns reported by terminal::size()
    rendered,           \* what is written to the terminal for it
    \* ---- the workspace the commands act on
    config,             \* the lines of ~/.pconfig (the tracked changelists)
    opened,             \* p4 opened: the changelist of each opened file
    file_counts,        \* cmd_ls: cl_file_count of the list on screen
    answer,             \* the line read by the latest "Type 'yes' to confirm deletion"
    cfg_op,             \* the latest add_tracked_cl / remove_tracked_cl call
    inner_items,        \* the items of the selector opened from the tracked-changelist list
    \* ---- the list widgets
    widget,             \* which list widget runs
    files,              \* interactive_file_select: changelist of each opened file
    pre_select_all,
    items,              \* the flat item sequence
    wrapped,            \* screen rows a frame takes beyond its line count: lines wider than the terminal
    selected_idx,       \* the cursor
    selected_set,
    start_pos,          \* (column, row) of the cursor when the widget was entered
    render_pos,         \* the anchor: where each frame and the final clear start
    first_render,
    \* ---- history
    end_pos,            \* the cursor position queried after the first frame
    queries,            \* calls of cursor::position() made by the widget
    moved_to,           \* target of the widget's latest cursor::MoveTo
    first_top,          \* the row the first line of the first frame sits on once the frame is printed
    scrolled,           \* rows the terminal scrolled while the latest frame after the first was printed
    shown,              \* the checkboxes and the footer count of the frame on screen
    last,               \* the last key handled by a main loop (cleared by the next frame)
    presses             \* the run of Down (or Up) keys pressed since widget entry

ctlVars   == <<pc, result, body_result>>
termVars  == <<raw_mode, cursor_visible>>
spinVars  == <<running, spinner, spin_idx>>
textVars  == <<text, term_width, rendered>>
cmdVars   == <<config, opened, file_counts, answer, cfg_op, inner_items>>
dataVars  == <<lines, term_height, running, spinner, spin_idx, text, term_width, rendered,
               config, opened, file_counts, answer, cfg_op, inner_items>>
viewVars  == <<top_line, search_query, search_matches, current_match_idx>>
pagerVars == <<lines, term_height, top_line, search_query, search_matches,
               current_match_idx, query, nav, running, spinner, spin_idx, text,
               term_width, rendered, config, opened, file_counts, answer, cfg_op,
               inner_items>>
listData  == <<widget, files, pre_select_all, items, wrapped>>
geoVars   == <<start_pos, render_pos, first_render, end_pos, queries, moved_to,
               first_top, scrolled, shown>>
listVars  == <<widget, files, pre_select_all, items, wrapped, selected_idx,
               selected_set, presses, start_pos, render_pos, first_render, end_pos,
               queries, moved_to, first_top, scrolled, shown>>
vars      == <<pc, raw_mode, cursor_visible, result, body_result, running, spinner,
               spin_idx, text, term_width, rendered, config, opened, file_counts,
               answer, cfg_op, inner_items, lines, term_height,
               top_line, search_query, search_matches, current_match_idx, query,
               nav, widget, files, pre_select_all, items, wrapped, selected_idx,
               selected_set, start_pos, render_pos, first_render, end_pos, queries,
               moved_to, first_top, scrolled, shown, last, presses>>

----------------------------------------------------------------------------
(* Bounds of the model *)

MaxLines == 3       \* longest annotate dataset
MaxRows  == 4       \* tallest terminal
MaxQuery == 2       \* longest query typed in the search prompt
MaxFiles == 3       \* longest file list / item list handed to a list widget
MaxPresses == 8     \* longest counted run of Down (or Up) keys
ScreenRows == 6     \* rows of the terminal the list widgets draw in
MaxWrap == 1        \* most screen rows a frame takes beyond its line count
MaxText == 4        \* longest text handed to the line output, in glyphs
MaxWidth == 3       \* widest terminal of the line output
MaxTracked == 2     \* most lines of ~/.pconfig
MaxOpened == 2      \* most files opened in the workspace

----------------------------------------------------------------------------
(* Rust helpers *)

None == <<>>
Some(x) == <<x>>

\* Result<T>: Ok(v), or the error of the operation that failed; <<>> before the return.
Ok(v) == <<"Ok", v>>
Err(origin) == <<"Err", origin>>
NoResult == <<>>

Min(a, b) == IF a <= b THEN a ELSE b
Max(a, b) == IF a >= b THEN a ELSE b

\* usize::saturating_sub
saturating_sub(a, b) == IF a >= b THEN a - b ELSE 0

\* char::to_lowercase on the model's alphabet
LowerChar(c) ==
    CASE c = "Q" -> "q"
      [] c = "N" -> "n"
      [] OTHER   -> c

\* str::to_lowercase
to_lowercase(s) == [i \in 1..Len(s) |-> LowerChar(s[i])]

\* str::contains(&str)
contains(s, q) ==
    \E off \in 0..(Len(s) - Len(q)) : SubSeq(s, off + 1, off + Len(q)) = q


----------------------------------------------------------------------------
(* Input data of the pager: perforce::AnnotateLine records *)

\* Characters a line field may hold and characters the user may type ('q' and 'N'
\* are keys of the viewer: quit and previous match).
LineA == [cl_number |-> <<"q">>, username |-> <<"1">>,
          date |-> <<"N">>, line_content |-> <<"1", "1">>]
LineB == [cl_number |-> <<"1">>, username |-> <<"Q", "n">>,
          date |-> <<"2">>, line_content |-> <<"n", "q">>]
LinePool == {LineA, LineB}
TypedChars == {"q", "N"}

SeqsUpTo(S, n) == UNION {[1..k -> S] : k \in 0..n}

Datasets == SeqsUpTo(LinePool, MaxLines)

----------------------------------------------------------------------------
(* annotate_viewer: the viewport arithmetic of each key *)

\* let visible_lines = (term_height as usize).saturating_sub(2);
visible_lines == saturating_sub(term_height, 2)

\* (mutant) PageDown without the clamp at the last line
PageDownTopUnclamped(t) == t + visible_lines

\* KeyCode::PageDown | KeyCode::Char(' ')
PageDownTop(t) == Min(t + visible_lines, saturating_sub(Len(lines), 1))
PageUpTop(t)   == saturating_sub(t, visible_lines)
LineDownTop(t) == Min(t + 1, saturating_sub(Len(lines), visible_lines))
LineUpTop(t)   == saturating_sub(t, 1)
HomeTop        == 0
\* (mutant) jump-to-end floored like PageDown, at the last line
EndTopLastLine == saturating_sub(Len(lines), 1)
EndTop         == saturating_sub(Len(lines), visible_lines)
\* render_annotate_page: let end_line = (top_line + visible_lines).min(lines.len());
end_line(t) == Min(t + visible_lines, Len(lines))
\* search_matches[k].saturating_sub(visible_lines / 2)
CenterTop(m)   == saturating_sub(m, visible_lines \div 2)

\* (mutant) only the text column is searched
LineMatchesTextOnly(line, q) == contains(to_lowercase(line.line_content), q)

\* The closure of find_search_matches' filter.
LineMatches(line, q) ==
    \/ contains(to_lowercase(line.cl_number), q)
    \/ contains(to_lowercase(line.username), q)
    \/ contains(to_lowercase(line.date), q)
    \/ contains(to_lowercase(line.line_content), q)

\* (mutant) the matches are numbered from 1
find_search_matches_from_one(ls, q) ==
    LET idx == [i \in 1..Len(ls) |-> i]
    IN  SelectSeq(idx, LAMBDA i : LineMatches(ls[i], q))

\* lines.iter().enumerate().filter(..).map(|(i, _)| i).collect()
find_search_matches(ls, q) ==
    LET idx == [i \in 1..Len(ls) |-> i - 1]
    IN  SelectSeq(idx, LAMBDA i : LineMatches(ls[i + 1], q))

\* (mutant) 'n' stops at the last match
NextIdxClamped(idx, k) == Min(idx + 1, k - 1)

\* let next_idx = (idx + 1) % search_matches.len();
NextIdx(idx, k) == (idx + 1) % k

\* let prev_idx = if idx == 0 { search_matches.len() - 1 } else { idx - 1 };
PrevIdx(idx, k) == IF idx = 0 THEN k - 1 ELSE idx - 1

\* search_query = Some(query.to_lowercase())
CommittedQuery(typed) == to_lowercase(typed)

\* current_match_idx = if !search_matches.is_empty() { Some(0) } else { None };
FirstMatch(m) == IF m # <<>> THEN Some(0) ELSE None

\* (mutant) a search without matches sends the viewport back to the top
CommitTopReset(m, t) == IF m # <<>> THEN CenterTop(m[1]) ELSE 0

\* if let Some(0) = current_match_idx { if !search_matches.is_empty() {
\*     top_line = search_matches[0].saturating_sub(visible_lines / 2); } }
CommitTop(m, t) == IF FirstMatch(m) = Some(0) /\ m # <<>> THEN CenterTop(m[1]) ELSE t

----------------------------------------------------------------------------
(* History of the last key handled by a main loop; a frame clears it. *)

\* key: the key; top, cur, sq, sm, idx, set: the widget's state when the key was
\* read; typed: the query prompt_search held when it returned; frames: the
\* frames the main loop has drawn since that key was read; pkey: the latest key
\* prompt_search read.
NoKey == [key |-> "none", top |-> 0, cur |-> None, sq |-> None, sm |-> <<>>,
          typed |-> <<>>, idx |-> 0, set |-> {}, frames |-> 0, pkey |-> "none"]
Pressed(k) == [key |-> k, top |-> top_line, cur |-> current_match_idx,
               sq |-> search_query, sm |-> search_matches, typed |-> <<>>,
               idx |-> selected_idx, set |-> selected_set, frames |-> 0,
               pkey |-> "none"]
\* A key read by prompt_search's loop.
Prompted(k) == [last EXCEPT !.pkey = k]
\* One frame of a main loop was drawn.
Framed == [NoKey EXCEPT !.frames = last.frames + 1]
\* The key that ends prompt_search: the state is the one recorded when '/' was read.
Typed(k) == [last EXCEPT !.key = k, !.typed = query, !.pkey = "none"]

\* The run of 'n' keys: `n` presses that started at match `from`; "np" is one 'n'
\* followed by one 'p'. Any other key ends the run.
NoNav == [kind |-> "none", from |-> 0, n |-> 0]
NavNext ==
    IF nav.kind = "n" /\ nav.n < Len(search_matches)
    THEN [nav EXCEPT !.n = @ + 1]
    ELSE [kind |-> "n", from |-> current_match_idx[1], n |-> 1]
NavPrev ==
    IF nav.kind = "n" /\ nav.n = 1
    THEN [kind |-> "np", from |-> nav.from, n |-> 0]
    ELSE NoNav

\* The variables of the widget that is not running.
NoList ==
    /\ widget = "none"
    /\ files = <<>>
    /\ pre_select_all = FALSE
    /\ items = <<>>
    /\ wrapped = 0
    /\ selected_idx = 0
    /\ selected_set = {}
    /\ presses = [kind |-> "none", n |-> 0]
    /\ start_pos = <<0, 0>>
    /\ render_pos = <<0, 0>>
    /\ first_render = TRUE
    /\ end_pos = None
    /\ queries = 0
    /\ moved_to = None
    /\ first_top = 0
    /\ scrolled = 0
    /\ shown = [boxes |-> <<>>, count |-> 0]

\* The workspace of a command that reads none of it.
NoOp == [op |-> "none", cl |-> "", before |-> <<>>]
NoCmds ==
    /\ config = <<>>
    /\ opened = <<>>
    /\ file_counts = <<>>
    /\ answer = <<>>
    /\ cfg_op = NoOp
    /\ inner_items = <<>>

NoText ==
    /\ text = <<>>
    /\ term_width = 0
    /\ rendered = <<>>

NoPager ==
    /\ NoText
    /\ NoCmds
    /\ running = FALSE
    /\ spinner = "none"
    /\ spin_idx = 0
    /\ lines = <<>>
    /\ term_height = 0
    /\ top_line = 0
    /\ search_query = None
    /\ search_matches = <<>>
    /\ current_match_idx = None
    /\ query = <<>>
    /\ nav = NoNav

----------------------------------------------------------------------------
(* cmd_annotate *)

\* let frames = ["⠋", .., "⠏"];   frames.len()
SpinnerFrames == 10

InitPager ==
    /\ pc = "loading"
    /\ raw_mode = FALSE
    /\ cursor_visible = TRUE
    /\ result = NoResult
    /\ body_result = NoResult
    /\ NoList
    /\ NoText
    /\ NoCmds
    /\ running = FALSE
    /\ spinner = "none"
    /\ spin_idx = 0
    /\ lines = <<>>
    /\ term_height \in 2..MaxRows     \* fixed for the run (no resize); 2 rows give visible_lines = 0
    /\ top_line = 0
    /\ search_query = None
    /\ search_matches = <<>>
    /\ current_match_idx = None
    /\ query = <<>>
    /\ nav = NoNav
    /\ last = NoKey

\* A step of cmd_annotate before the viewer's data is there.
AnnotateStep(next, res) ==
    /\ pc' = next
    /\ result' = res
    /\ UNCHANGED <<body_result, termVars, term_height, viewVars, query, nav, textVars,
                   cmdVars, listVars, last>>

\* print!("Loading annotate data"); std::io::stdout().flush()?;
AnnotateLoading ==
    /\ pc = "loading"
    /\ \/ AnnotateStep("spawn", result)
       \/ AnnotateStep("returned", Err("flush"))
    /\ UNCHANGED <<spinVars, lines>>

\* let running = Arc::new(AtomicBool::new(true)); let spinner_thread = thread::spawn(..);
AnnotateSpawn ==
    /\ pc = "spawn"
    /\ AnnotateStep("fetch", result)
    /\ running' = TRUE
    /\ spinner' = "poll"
    /\ UNCHANGED <<spin_idx, lines>>

\* let lines = perforce::get_annotate(file_path)?;
AnnotateFetch ==
    /\ pc = "fetch"
    /\ \/ AnnotateStep("stop", result) /\ lines' \in Datasets
       \/ AnnotateStep("returned", Err("get_annotate")) /\ lines' = lines
    /\ UNCHANGED spinVars

\* running.store(false, Ordering::Relaxed);
AnnotateStop ==
    /\ pc = "stop"
    /\ AnnotateStep("join", result)
    /\ running' = FALSE
    /\ UNCHANGED <<spinner, spin_idx, lines>>

\* (mutant) cmd_annotate goes on without waiting for the spinner thread
AnnotateJoinNoWait ==
    /\ pc = "join"
    /\ AnnotateStep("fetched", result)
    /\ UNCHANGED <<spinVars, lines>>

\* spinner_thread.join().ok();
AnnotateJoin ==
    /\ pc = "join"
    /\ spinner = "done"
    /\ AnnotateStep("fetched", result)
    /\ UNCHANGED <<spinVars, lines>>

\* A step of the spinner thread: it writes its own locals only.
SpinnerStep(next, idx) ==
    /\ spinner' = next
    /\ spin_idx' = idx
    /\ UNCHANGED <<pc, result, body_result, termVars, running, lines, term_height,
                   viewVars, query, nav, textVars, cmdVars, listVars, last>>

\* while running_clone.load(Ordering::Relaxed) { .. }
SpinnerPoll ==
    /\ spinner = "poll"
    /\ SpinnerStep(IF running THEN "frame" ELSE "clear", spin_idx)

\* print!("\rLoading annotate data {}  ", frames[idx]); flush().ok();
\* idx = (idx + 1) % frames.len(); thread::sleep(80 ms);
SpinnerFrame ==
    /\ spinner = "frame"
    /\ SpinnerStep("poll", (spin_idx + 1) % SpinnerFrames)

\* print!("\r{}\r", " ".repeat(50)); flush().ok();    and the thread ends
SpinnerClear ==
    /\ spinner = "clear"
    /\ SpinnerStep("done", 0)

\* if lines.is_empty() { ...; return Ok(()); }
AnnotateFetched ==
    /\ pc = "fetched"
    /\ IF lines = <<>>
          THEN pc' = "returned" /\ result' = Ok("unit")
          ELSE pc' = "enable" /\ result' = result
    /\ UNCHANGED <<body_result, termVars, pagerVars, listVars, last>>

\* terminal::enable_raw_mode()?;
AnnotateEnableRaw ==
    /\ pc = "enable"
    /\ \/ raw_mode' = TRUE /\ pc' = "clear_hide" /\ result' = result
       \/ raw_mode' = raw_mode /\ pc' = "returned" /\ result' = Err("enable_raw_mode")
    /\ UNCHANGED <<body_result, cursor_visible, pagerVars, listVars, last>>

\* execute!(stdout, terminal::Clear(ClearType::All), cursor::Hide)?;
AnnotateClearHide ==
    /\ pc = "clear_hide"
    /\ \/ cursor_visible' = FALSE /\ pc' = "render" /\ result' = result
       \/ cursor_visible' = cursor_visible /\ pc' = "returned" /\ result' = Err("clear_hide")
    /\ UNCHANGED <<body_result, raw_mode, pagerVars, listVars, last>>

\* annotate_viewer returns `res` to cmd_annotate; its locals go out of scope.
ViewerReturns(res) ==
    /\ body_result' = res
    /\ pc' = "show"
    /\ top_line' = 0
    /\ search_query' = None
    /\ search_matches' = <<>>
    /\ current_match_idx' = None
    /\ query' = <<>>
    /\ nav' = NoNav
    /\ last' = NoKey
    /\ UNCHANGED <<result, raw_mode, dataVars, listVars>>

\* terminal::size()?; render_annotate_page(..)?;
ViewerRender ==
    /\ pc = "render"
    /\ \/ /\ pc' = "read"
          /\ last' = Framed
          /\ UNCHANGED <<result, termVars, dataVars, viewVars, query, nav, body_result,
                         listVars>>
       \/ /\ ViewerReturns(Err("viewer"))
          /\ UNCHANGED cursor_visible

\* event::read()? fails
ViewerReadFails ==
    /\ pc = "read"
    /\ ViewerReturns(Err("viewer"))
    /\ UNCHANGED cursor_visible

\* A key of the main loop that only moves the viewport.
ViewerMove(k, newTop) ==
    /\ pc = "read"
    /\ pc' = "render"
    /\ top_line' = newTop
    /\ nav' = NoNav
    /\ last' = Pressed(k)
    /\ UNCHANGED <<result, termVars, dataVars, search_query, search_matches,
                   current_match_idx, query, body_result, listVars>>

\* KeyCode::PageDown | KeyCode::Char(' ')
ViewerPageDown == ViewerMove("PageDown", PageDownTop(top_line))
\* KeyCode::PageUp
ViewerPageUp   == ViewerMove("PageUp", PageUpTop(top_line))
\* KeyCode::Down | KeyCode::Char('j')
ViewerLineDown == ViewerMove("Down", LineDownTop(top_line))
\* KeyCode::Up | KeyCode::Char('k')
ViewerLineUp   == ViewerMove("Up", LineUpTop(top_line))
\* KeyCode::Home | KeyCode::Char('g')
ViewerHome     == ViewerMove("Home", HomeTop)
\* KeyCode::End | KeyCode::Char('G')
ViewerEnd      == ViewerMove("End", EndTop)
\* (mutant) a key without a handler is followed by the next read, without a frame
ViewerOtherKeyNoFrame ==
    /\ pc = "read"
    /\ pc' = "read"
    /\ nav' = NoNav
    /\ last' = Pressed("other")
    /\ UNCHANGED <<result, termVars, dataVars, viewVars, query, body_result, listVars>>

\* _ => {}  and events that are not key events
ViewerOtherKey == ViewerMove("other", top_line)

\* KeyCode::Char('q') | KeyCode::Esc => break,  then Ok(())
ViewerQuit ==
    /\ pc = "read"
    /\ ViewerReturns(Ok("unit"))
    /\ UNCHANGED cursor_visible

\* KeyCode::Char('n')
ViewerNext ==
    /\ pc = "read"
    /\ pc' = "render"
    /\ last' = Pressed("n")
    /\ IF current_match_idx # None /\ search_matches # <<>>
          THEN LET next_idx == NextIdx(current_match_idx[1], Len(search_matches))
               IN  /\ current_match_idx' = Some(next_idx)
                   /\ top_line' = CenterTop(search_matches[next_idx + 1])
                   /\ nav' = NavNext
          ELSE /\ nav' = NoNav
               /\ UNCHANGED <<current_match_idx, top_line>>
    /\ UNCHANGED <<result, termVars, dataVars, search_query, search_matches,
                   query, body_result, listVars>>

\* KeyCode::Char('p') | KeyCode::Char('N')
ViewerPrev ==
    /\ pc = "read"
    /\ pc' = "render"
    /\ last' = Pressed("p")
    /\ IF current_match_idx # None /\ search_matches # <<>>
          THEN LET prev_idx == PrevIdx(current_match_idx[1], Len(search_matches))
               IN  /\ current_match_idx' = Some(prev_idx)
                   /\ top_line' = CenterTop(search_matches[prev_idx + 1])
                   /\ nav' = NavPrev
          ELSE /\ nav' = NoNav
               /\ UNCHANGED <<current_match_idx, top_line>>
    /\ UNCHANGED <<result, termVars, dataVars, search_query, search_matches,
                   query, body_result, listVars>>

----------------------------------------------------------------------------
(* prompt_search *)

\* KeyCode::Char('/'): prompt_search up to its loop
\* (terminal::size, MoveTo/Clear, write "/", flush, cursor::Show).
SearchOpen ==
    /\ pc = "read"
    /\ \/ /\ pc' = "search"
          /\ cursor_visible' = TRUE
          /\ query' = <<>>
          /\ nav' = NoNav
          /\ last' = Pressed("/")
          /\ UNCHANGED <<result, raw_mode, dataVars, viewVars, body_result, listVars>>
       \/ /\ ViewerReturns(Err("viewer"))
          /\ UNCHANGED cursor_visible

\* event::read()? fails inside prompt_search
SearchReadFails ==
    /\ pc = "search"
    /\ ViewerReturns(Err("viewer"))
    /\ UNCHANGED cursor_visible

\* (mutant) 'q' typed in the prompt quits the pager
SearchCharQuits ==
    /\ pc = "search"
    /\ Len(query) < MaxQuery
    /\ \/ /\ \E c \in TypedChars \ {"q"} : query' = Append(query, c) /\ last' = Prompted(c)
          /\ UNCHANGED <<pc, result, termVars, dataVars, viewVars, nav, body_result,
                         listVars>>
       \/ /\ ViewerReturns(Ok("unit"))
          /\ UNCHANGED cursor_visible

\* KeyCode::Char(c) => { query.push(c); write!(stdout, "{}", c)?; stdout.flush()?; }
SearchChar ==
    /\ pc = "search"
    /\ Len(query) < MaxQuery
    /\ \/ /\ \E c \in TypedChars : query' = Append(query, c) /\ last' = Prompted(c)
          /\ UNCHANGED <<pc, result, termVars, dataVars, viewVars, nav, body_result,
                         listVars>>
       \/ /\ ViewerReturns(Err("viewer"))
          /\ UNCHANGED cursor_visible

\* KeyCode::Backspace => { query.pop(); MoveTo/Clear; write!(stdout, "/{}", query)?; flush }
SearchBackspace ==
    /\ pc = "search"
    /\ \/ /\ query' = IF query = <<>> THEN <<>> ELSE SubSeq(query, 1, Len(query) - 1)
          /\ last' = Prompted("Backspace")
          /\ UNCHANGED <<pc, result, termVars, dataVars, viewVars, nav, body_result,
                         listVars>>
       \/ /\ ViewerReturns(Err("viewer"))
          /\ UNCHANGED cursor_visible

\* _ => {}  and events that are not key events
SearchOtherKey ==
    /\ pc = "search"
    /\ last' = Prompted("other")
    /\ UNCHANGED <<pc, result, termVars, dataVars, viewVars, query, nav, body_result,
                   listVars>>

\* (mutant) leaving the prompt with Esc drops the committed search
SearchEscClears ==
    /\ pc = "search"
    /\ cursor_visible' = FALSE
    /\ pc' = "render"
    /\ query' = <<>>
    /\ last' = Typed("search_esc")
    /\ search_query' = None
    /\ search_matches' = <<>>
    /\ current_match_idx' = None
    /\ UNCHANGED <<result, raw_mode, dataVars, top_line, nav, body_result, listVars>>

\* KeyCode::Esc => { execute!(stdout, cursor::Hide)?; return Ok(None); }
\* and annotate_viewer's `if let Some(query) = prompt_search()?` is not taken.
SearchEsc ==
    /\ pc = "search"
    /\ \/ /\ cursor_visible' = FALSE
          /\ pc' = "render"
          /\ query' = <<>>
          /\ last' = Typed("search_esc")
          /\ UNCHANGED <<result, raw_mode, dataVars, viewVars, nav, body_result, listVars>>
       \/ /\ ViewerReturns(Err("viewer"))
          /\ UNCHANGED cursor_visible

\* (mutant) Enter on an empty query drops the committed search
SearchEnterEmptyClears ==
    /\ pc = "search"
    /\ \/ /\ cursor_visible' = FALSE
          /\ pc' = "render"
          /\ query' = <<>>
          /\ last' = Typed("search_enter")
          /\ LET q == CommittedQuery(query)
                 m == find_search_matches(lines, q)
             IN  /\ search_query' = IF query = <<>> THEN None ELSE Some(q)
                 /\ search_matches' = IF query = <<>> THEN <<>> ELSE m
                 /\ current_match_idx' = IF query = <<>> THEN None ELSE FirstMatch(m)
                 /\ top_line' = IF query = <<>> THEN top_line ELSE CommitTop(m, top_line)
          /\ UNCHANGED <<result, raw_mode, dataVars, nav, body_result, listVars>>
       \/ /\ ViewerReturns(Err("viewer"))
          /\ UNCHANGED cursor_visible

\* KeyCode::Enter => { execute!(stdout, cursor::Hide)?;
\*                     return Ok(if query.is_empty() { None } else { Some(query) }); }
\* followed by annotate_viewer's handling of Some(query).
SearchEnter ==
    /\ pc = "search"
    /\ \/ /\ cursor_visible' = FALSE
          /\ pc' = "render"
          /\ query' = <<>>
          /\ last' = Typed("search_enter")
          /\ IF query = <<>>
                THEN UNCHANGED viewVars
                ELSE LET q == CommittedQuery(query)
                         m == find_search_matches(lines, q)
                     IN  /\ search_query' = Some(q)
                         /\ search_matches' = m
                         /\ current_match_idx' = FirstMatch(m)
                         /\ top_line' = CommitTop(m, top_line)
          /\ UNCHANGED <<result, raw_mode, dataVars, nav, body_result, listVars>>
       \/ /\ ViewerReturns(Err("viewer"))
          /\ UNCHANGED cursor_visible

----------------------------------------------------------------------------
(* cmd_annotate: cleanup *)

\* execute!(stdout, cursor::Show)?;
AnnotateShow ==
    /\ pc = "show"
    /\ \/ cursor_visible' = TRUE /\ pc' = "disable" /\ result' = result
       \/ cursor_visible' = cursor_visible /\ pc' = "returned" /\ result' = Err("show")
    /\ UNCHANGED <<body_result, raw_mode, pagerVars, listVars, last>>

\* (mutant) the viewer's result is returned without the release
AnnotateReturnsUnreleased ==
    /\ pc = "disable"
    /\ result' = body_result
    /\ pc' = "returned"
    /\ UNCHANGED <<body_result, termVars, pagerVars, listVars, last>>

\* terminal::disable_raw_mode()?; result
AnnotateDisableRaw ==
    /\ pc = "disable"
    /\ raw_mode' = FALSE
    /\ result' = body_result
    /\ pc' = "returned"
    /\ UNCHANGED <<body_result, cursor_visible, pagerVars, listVars, last>>

NextPager ==
    \/ AnnotateLoading
    \/ AnnotateSpawn
    \/ AnnotateFetch
    \/ AnnotateStop
    \/ AnnotateJoin
    \/ SpinnerPoll
    \/ SpinnerFrame
    \/ SpinnerClear
    \/ AnnotateFetched
    \/ AnnotateEnableRaw
    \/ AnnotateClearHide
    \/ ViewerRender
    \/ ViewerReadFails
    \/ ViewerPageDown
    \/ ViewerPageUp
    \/ ViewerLineDown
    \/ ViewerLineUp
    \/ ViewerHome
    \/ ViewerEnd
    \/ ViewerOtherKey
    \/ ViewerQuit
    \/ ViewerNext
    \/ ViewerPrev
    \/ SearchOpen
    \/ SearchReadFails
    \/ SearchChar
    \/ SearchBackspace
    \/ SearchOtherKey
    \/ SearchEsc
    \/ SearchEnter
    \/ AnnotateShow
    \/ AnnotateDisableRaw

SpecPager == InitPager /\ [][NextPager]_vars

----------------------------------------------------------------------------
(* render_annotate_page: the output of one data line and of the status line. *)
(* A String is a sequence of glyphs (chars); what matters of a glyph is the  *)
(* number of terminal columns it takes.                                      *)

\* A combining mark, an ASCII letter, a wide (CJK / emoji) character.
Glyphs == {"combining", "x", "wide"}

\* Columns a glyph takes on the terminal (unicode display width).
GlyphWidth(g) ==
    CASE g = "combining" -> 0
      [] g = "wide"      -> 2
      [] OTHER           -> 1        \* "x", " ", the ellipsis

RECURSIVE DisplayWidth(_)
DisplayWidth(s) == IF s = <<>> THEN 0 ELSE GlyphWidth(Head(s)) + DisplayWidth(Tail(s))

\* " ".repeat(n)
Spaces(n) == [i \in 1..n |-> " "]

\* formatted.chars().take(term_width as usize - 1).collect::<String>()
TakeChars(s, n) == SubSeq(s, 1, Min(n, Len(s)))

\* let truncated = if formatted.chars().count() > term_width as usize {
\*     take(term_width - 1) + '…' } else { formatted };
TruncateLine(s, w) ==
    IF Len(s) > w THEN Append(TakeChars(s, w - 1), "ellipsis") ELSE s

\* let status_display = if status.chars().count() > term_width as usize {
\*     take(term_width - 1) + '…' } else { format!("{}{}", status, " ".repeat(padding)) };
StatusDisplay(s, w) ==
    IF Len(s) > w THEN Append(TakeChars(s, w - 1), "ellipsis")
    ELSE s \o Spaces(w - Len(s))

InitText ==
    /\ pc = "text"
    /\ raw_mode = TRUE
    /\ cursor_visible = FALSE
    /\ result = NoResult
    /\ body_result = NoResult
    /\ NoList
    /\ NoCmds
    /\ running = FALSE
    /\ spinner = "done"
    /\ spin_idx = 0
    /\ lines = <<>>
    /\ term_height = 0
    /\ top_line = 0
    /\ search_query = None
    /\ search_matches = <<>>
    /\ current_match_idx = None
    /\ query = <<>>
    /\ nav = NoNav
    /\ last = NoKey
    /\ text \in SeqsUpTo(Glyphs, MaxText)
    /\ term_width \in 1..MaxWidth
    /\ rendered = <<>>

\* A step of render_annotate_page that writes `out` for the text.
Writes(next, out) ==
    /\ pc = "text"
    /\ pc' = next
    /\ rendered' = out
    /\ UNCHANGED <<result, body_result, termVars, running, spinner, spin_idx, lines,
                   term_height, viewVars, query, nav, text, term_width, cmdVars,
                   listVars, last>>

\* write!(stdout, "{}\r\n", truncated)?;
RenderDataLine == Writes("line_written", TruncateLine(text, term_width))

\* write!(stdout, "{}", status_display.black().on_white())?;
RenderStatus == Writes("status_written", StatusDisplay(text, term_width))

NextText == RenderDataLine \/ RenderStatus

SpecText == InitText /\ [][NextText]_vars

----------------------------------------------------------------------------
(* Input data of the list widgets *)

\* Changelist names of opened files, and entries of the single-select lists.
CLNames == {"default", "9", "10"}
ItemNames == {"default", "new", "9"}

NonEmptySeqsUpTo(S, n) == UNION {[1..k -> S] : k \in 1..n}

\* str::parse::<i64>() on the model's names
parse_i64(s) ==
    CASE s = "9"  -> Some(9)
      [] s = "10" -> Some(10)
      [] OTHER    -> None

\* String::cmp (byte order) on the model's names: "10" < "9" < "default" < "new"
StrRank(s) ==
    CASE s = "10"      -> 1
      [] s = "9"       -> 2
      [] s = "default" -> 3
      [] OTHER         -> 4

\* The comparator of cls.sort_by returns Ordering::Less
ClLess(a, b) ==
    IF a = "default" /\ b # "default" THEN TRUE
    ELSE IF b = "default" /\ a # "default" THEN FALSE
    ELSE IF parse_i64(a) # None /\ parse_i64(b) # None
         THEN parse_i64(a)[1] < parse_i64(b)[1]
         ELSE StrRank(a) < StrRank(b)

\* cls.sort_by(..) of the (distinct) keys of cl_to_files
RECURSIVE SortCls(_)
SortCls(S) ==
    IF S = {} THEN <<>>
    ELSE LET m == CHOOSE x \in S : \A y \in S \ {x} : ClLess(x, y)
         IN  <<m>> \o SortCls(S \ {m})

\* (mutant) the files of a changelist in reverse input order
cl_to_files_reversed(fs, cl) ==
    LET fwd == SelectSeq([i \in 1..Len(fs) |-> i - 1], LAMBDA i : fs[i + 1] = cl)
    IN  [j \in 1..Len(fwd) |-> fwd[Len(fwd) + 1 - j]]

\* cl_to_files[cl]: the indices of the files of changelist cl, in input order
cl_to_files(fs, cl) ==
    SelectSeq([i \in 1..Len(fs) |-> i - 1], LAMBDA i : fs[i + 1] = cl)

ClHeader(cl) == [kind |-> "ClHeader", cl |-> cl]
File(i) == [kind |-> "File", idx |-> i]

\* for cl in &cls { items.push(ClHeader); for &file_idx in &cl_to_files[cl] { items.push(File) } }
RECURSIVE PushGroups(_, _)
PushGroups(fs, cls) ==
    IF cls = <<>> THEN <<>>
    ELSE LET group == cl_to_files(fs, Head(cls))
         IN  <<ClHeader(Head(cls))>> \o [j \in 1..Len(group) |-> File(group[j])]
             \o PushGroups(fs, Tail(cls))

BuildItems(fs) == PushGroups(fs, SortCls({fs[i] : i \in 1..Len(fs)}))

\* The orders in which a HashSet<usize> may be iterated
Orders(S) ==
    {p \in [1..Cardinality(S) -> S] : \A i, j \in 1..Cardinality(S) : p[i] = p[j] => i = j}

----------------------------------------------------------------------------
(* Key handlers of the list widgets: the cursor *)

\* (mutant) Up without the wrap to the last item
WrapUpNoWrap(idx, len) == idx - 1

\* KeyCode::Up   (the same code in all three list widgets: 1851, 2066, 2533)
WrapUp(idx, len) == IF idx > 0 THEN idx - 1 ELSE len - 1

\* (mutant) Down that stops at the last item
WrapDownClamped(idx, len) == IF idx < len - 1 THEN idx + 1 ELSE idx

\* KeyCode::Down (the same code in all three list widgets: 1859, 2073, 2541)
WrapDown(idx, len) == IF idx < len - 1 THEN idx + 1 ELSE 0

IsHeader(k) == items[k + 1].kind = "ClHeader"

MinOf(S) == CHOOSE x \in S : \A y \in S : x <= y
MaxOf(S) == CHOOSE x \in S : \A y \in S : x >= y

\* (mutant) Tab without the wrap to the first header
TabIdxNoWrap(idx) ==
    LET after == {k \in (idx + 1)..(Len(items) - 1) : IsHeader(k)}
    IN  IF after # {} THEN MinOf(after) ELSE idx

\* KeyCode::Tab
TabIdx(idx) ==
    LET after == {k \in (idx + 1)..(Len(items) - 1) : IsHeader(k)}
        upto  == {k \in 0..idx : IsHeader(k)}
    IN  IF after # {} THEN MinOf(after)
        ELSE IF upto # {} THEN MinOf(upto)
        ELSE idx

\* KeyCode::BackTab
BackTabIdx(idx) ==
    LET before == {k \in 0..(idx - 1) : IsHeader(k)}
        from   == {k \in idx..(Len(items) - 1) : IsHeader(k)}
    IN  IF before # {} THEN MaxOf(before)
        ELSE IF from # {} THEN MaxOf(from)
        ELSE idx

----------------------------------------------------------------------------
(* Key handlers of the list widgets: the selection *)

SeqToSet(s) == {s[i] : i \in 1..Len(s)}

\* (mutant) Space on a header selects or deselects the files of every changelist
ToggleHeaderEveryGroup(set, cl) ==
    LET file_indices == SeqToSet(cl_to_files(files, cl))
        all_selected == \A i \in file_indices : i \in set
    IN  IF all_selected THEN {} ELSE 0..(Len(files) - 1)

\* (mutant) a group with some leaf selected is deselected
ToggleHeaderAny(set, cl) ==
    LET file_indices == SeqToSet(cl_to_files(files, cl))
        some_selected == \E i \in file_indices : i \in set
    IN  IF some_selected THEN set \ file_indices ELSE set \cup file_indices

\* KeyCode::Char(' ') on SelectItem::ClHeader(cl)
ToggleHeader(set, cl) ==
    LET file_indices == SeqToSet(cl_to_files(files, cl))
        all_selected == \A i \in file_indices : i \in set
    IN  IF all_selected THEN set \ file_indices ELSE set \cup file_indices

\* (mutant) Space on a file only ever selects it
ToggleFileAddOnly(set, file_idx) == set \cup {file_idx}

\* KeyCode::Char(' ') on SelectItem::File(file_idx)
ToggleFile(set, file_idx) ==
    IF file_idx \in set THEN set \ {file_idx} ELSE set \cup {file_idx}

SpaceSet(set, item) ==
    IF item.kind = "ClHeader" THEN ToggleHeader(set, item.cl)
                              ELSE ToggleFile(set, item.idx)

----------------------------------------------------------------------------
(* The runs of Down / Up keys *)

NoPresses == [kind |-> "none", n |-> 0]
Mixed == [kind |-> "mixed", n |-> 0]
Run(k) ==
    IF presses.kind \in {"none", k} /\ presses.n < MaxPresses
    THEN [kind |-> k, n |-> presses.n + 1]
    ELSE Mixed

----------------------------------------------------------------------------
(* The list widgets: interactive_file_select, interactive_select_with_desc, *)
(* interactive_cl_select_with_delete                                        *)

\* Positions cursor::position() reports when a widget is entered: on the first
\* row, on the last row, and on rows from which the shortest block just fits or
\* just does not; after output that ended its line (column 0) or did not.
StartPositions ==
    {<<0, 0>>, <<2, ScreenRows - 4>>, <<0, ScreenRows - 3>>, <<2, ScreenRows - 1>>}

\* let lines_rendered = 2 + items.len() + 2;   (file_select: header, blank, items,
\* blank, footer)      let lines_rendered = 2 + items.len();   (the other two)
lines_rendered ==
    IF widget = "file_select" THEN 2 + Len(items) + 2 ELSE 2 + Len(items)

\* The row the terminal leaves the cursor on after n lines, each ended by "\r\n",
\* were printed from `row`: the screen scrolls once the last row is passed.
PrintedEndRow(row, n) == Min(row + n, ScreenRows - 1)

\* The rows the terminal scrolls up while n rows are printed from `row`.
ScrolledRows(row, n) == Max(0, row + n - (ScreenRows - 1))

\* The screen rows one frame takes: a line wider than the terminal continues on
\* the next row (the list widgets print their lines untruncated).
rows_printed == lines_rendered + wrapped

\* (mutant) the position is queried after every frame
QueriesPositionAlways(first) == TRUE

\* if first_render { let end_pos = cursor::position()?; .. }
QueriesPosition(first) == first

\* let expected_end_row = render_pos.1 + lines_rendered as u16;
\* if end_pos.1 != expected_end_row {
\*     if end_pos.1 >= lines_rendered as u16 { render_pos.1 = end_pos.1 - lines_rendered as u16; }
\*     else { render_pos.1 = 0; } }
AdjustRenderPos(pos, end, n) ==
    LET expected_end_row == pos[2] + n
    IN  IF end[2] # expected_end_row
        THEN IF end[2] >= n THEN <<pos[1], end[2] - n>> ELSE <<pos[1], 0>>
        ELSE pos

\* Nothing of the multi-select list is on screen.
NoShown == [boxes |-> <<>>, count |-> 0]

\* (mutant) the checkbox of a header tells "some" before "all"
CheckboxSomeFirst(set, cl) ==
    LET file_indices == SeqToSet(cl_to_files(files, cl))
        all_selected == \A i \in file_indices : i \in set
        some_selected == \E i \in file_indices : i \in set
    IN  IF some_selected THEN "partial" ELSE IF all_selected THEN "full" ELSE "empty"

\* let checkbox = if all_selected { "[✓]" } else if some_selected { "[◐]" } else { "[ ]" };
\* ("full", "partial", "empty")
Checkbox(set, cl) ==
    LET file_indices == SeqToSet(cl_to_files(files, cl))
        all_selected == \A i \in file_indices : i \in set
        some_selected == \E i \in file_indices : i \in set
    IN  IF all_selected THEN "full" ELSE IF some_selected THEN "partial" ELSE "empty"

\* let checkbox = if selected_set.contains(file_idx) { "[✓]" } else { "[ ]" };
FileCheckbox(set, file_idx) == IF file_idx \in set THEN "full" ELSE "empty"

\* The frame of interactive_file_select: the checkbox of every item line and
\* print!("Selected: {} file(s)\r\n", selected_set.len());
Frame ==
    [boxes |-> [k \in 1..Len(items) |->
                   IF items[k].kind = "ClHeader"
                   THEN Checkbox(selected_set, items[k].cl)
                   ELSE FileCheckbox(selected_set, items[k].idx)],
     count |-> Cardinality(selected_set)]

InitList ==
    /\ pc = "list_start"
    /\ raw_mode = FALSE
    /\ cursor_visible = TRUE
    /\ result = NoResult
    /\ body_result = NoResult
    /\ NoPager
    /\ widget \in {"file_select", "select_with_desc", "cl_select"}
    /\ IF widget = "file_select"
          THEN /\ files \in NonEmptySeqsUpTo(CLNames, MaxFiles)
               /\ pre_select_all \in BOOLEAN
               /\ items = BuildItems(files)
          ELSE /\ files = <<>>
               /\ pre_select_all = FALSE
               /\ items \in NonEmptySeqsUpTo(ItemNames, MaxFiles)
    \* "CL {} - {}" with a description wider than the terminal takes two rows or more
    /\ wrapped \in IF widget = "select_with_desc" THEN 0..MaxWrap ELSE {0}
    /\ selected_idx = 0
    /\ selected_set = IF pre_select_all THEN 0..(Len(files) - 1) ELSE {}
    /\ last = NoKey
    /\ presses = NoPresses
    /\ start_pos = <<0, 0>>
    /\ render_pos = <<0, 0>>
    /\ first_render = TRUE
    /\ end_pos = None
    /\ queries = 0
    /\ moved_to = None
    /\ first_top = 0
    /\ scrolled = 0
    /\ shown = [boxes |-> <<>>, count |-> 0]

\* let start_pos = cursor::position()?;
ListStart ==
    /\ pc = "list_start"
    /\ \/ /\ pc' = "list_enable"
          /\ start_pos' \in StartPositions
          /\ queries' = queries + 1
          /\ result' = result
       \/ /\ pc' = "returned"
          /\ result' = Err("position")
          /\ UNCHANGED <<start_pos, queries>>
    /\ UNCHANGED <<body_result, termVars, pagerVars, listData, selected_idx, selected_set,
                   presses, render_pos, first_render, end_pos, moved_to, first_top,
                   scrolled, shown, last>>

\* terminal::enable_raw_mode()?;
ListEnableRaw ==
    /\ pc = "list_enable"
    /\ \/ /\ raw_mode' = TRUE
          /\ pc' = "list_render"
          /\ result' = result
          /\ render_pos' = start_pos          \* let mut render_pos = start_pos;
          /\ first_render' = TRUE             \* let mut first_render = true;
       \/ /\ raw_mode' = raw_mode
          /\ pc' = "returned"
          /\ result' = Err("enable_raw_mode")
          /\ UNCHANGED <<render_pos, first_render>>
    /\ UNCHANGED <<body_result, cursor_visible, pagerVars, listData, selected_idx,
                   selected_set, presses, start_pos, end_pos, queries, moved_to,
                   first_top, scrolled, shown, last>>

\* The closure returns `res`; the widget's locals are consumed or go out of scope.
BodyReturns(res) ==
    /\ body_result' = res
    /\ pc' = "list_cleanup"
    /\ selected_idx' = 0
    /\ selected_set' = {}
    /\ presses' = NoPresses
    /\ shown' = NoShown
    /\ UNCHANGED <<result, cursor_visible, pagerVars, listData, start_pos, render_pos,
                   first_render, end_pos, queries, first_top, scrolled>>

\* execute!(stdout, cursor::MoveTo(render_pos.0, render_pos.1), Clear(FromCursorDown))
MovesToAnchor == moved_to' = Some(render_pos)

\* One frame: MoveTo/Clear, flush, the block, flush (each with `?`), and after
\* the first frame the correction of render_pos.
ListRender ==
    /\ pc = "list_render"
    /\ \/ /\ pc' = "list_read"
          /\ last' = Framed
          /\ MovesToAnchor
          /\ shown' = IF widget = "file_select" THEN Frame ELSE NoShown
          /\ IF QueriesPosition(first_render)
                THEN LET end == <<0, PrintedEndRow(render_pos[2], rows_printed)>>
                     IN  /\ end_pos' = Some(end)
                         /\ queries' = queries + 1
                         /\ render_pos' = AdjustRenderPos(render_pos, end, lines_rendered)
                         /\ first_render' = FALSE
                ELSE UNCHANGED <<end_pos, queries, render_pos, first_render>>
          /\ IF first_render
                THEN /\ first_top' = render_pos[2] - ScrolledRows(render_pos[2], rows_printed)
                     /\ scrolled' = scrolled
                ELSE /\ first_top' = first_top
                     /\ scrolled' = ScrolledRows(render_pos[2], rows_printed)
          /\ UNCHANGED <<result, body_result, termVars, pagerVars, listData, selected_idx,
                         selected_set, presses, start_pos>>
       \/ /\ BodyReturns(Err("frame"))
          /\ last' = NoKey
          /\ UNCHANGED <<raw_mode, moved_to>>

\* event::read()? fails
ListReadFails ==
    /\ pc = "list_read"
    /\ BodyReturns(Err("read"))
    /\ UNCHANGED <<raw_mode, last, moved_to>>

\* A key of the main loop that leaves the loop running.
ListKey(k, newIdx, newSet, newPresses) ==
    /\ pc = "list_read"
    /\ pc' = "list_render"
    /\ selected_idx' = newIdx
    /\ selected_set' = newSet
    /\ presses' = newPresses
    /\ last' = Pressed(k)
    /\ UNCHANGED <<result, body_result, termVars, pagerVars, listData, geoVars>>

ListUp   == ListKey("Up", WrapUp(selected_idx, Len(items)), selected_set, Run("up"))
ListDown == ListKey("Down", WrapDown(selected_idx, Len(items)), selected_set, Run("down"))

ListTab ==
    /\ widget = "file_select"
    /\ ListKey("Tab", TabIdx(selected_idx), selected_set, Mixed)

ListBackTab ==
    /\ widget = "file_select"
    /\ ListKey("BackTab", BackTabIdx(selected_idx), selected_set, Mixed)

ListSpace ==
    /\ widget = "file_select"
    /\ ListKey("Space", selected_idx, SpaceSet(selected_set, items[selected_idx + 1]), Mixed)

\* (mutant) a key without a handler is taken for Down
ListOtherKeyAsDown ==
    ListKey("other", WrapDown(selected_idx, Len(items)), selected_set, Mixed)

\* _ => {}  and events that are not key events
ListOtherKey == ListKey("other", selected_idx, selected_set, Mixed)

\* (mutant) Enter hands back every file
ConfirmResultsAll(set) == {Ok(order) : order \in Orders(0..(Len(files) - 1))}

\* Ok(result) for the vec pushed by `for idx in selected_set`
ConfirmResults(set) == {Ok(order) : order \in Orders(set)}

\* (mutant) the single-select list hands back its first item
EnterResultsFirst ==
    IF widget = "file_select"
    THEN ConfirmResults(selected_set)
    ELSE {Ok(Some(items[1]))}

\* What Enter hands back.
EnterResults ==
    IF widget = "file_select"
    THEN ConfirmResults(selected_set)
    ELSE {Ok(Some(items[selected_idx + 1]))}

\* What Esc / 'q' hands back.
CancelResult ==
    IF widget = "file_select" THEN Ok(<<>>) ELSE Ok(None)

\* KeyCode::Enter => { disable_raw_mode()?; execute!(MoveTo, Clear)?; return Ok(..) }
ListEnter ==
    /\ pc = "list_read"
    /\ widget \in {"file_select", "select_with_desc"}
    /\ raw_mode' = FALSE
    /\ last' = Pressed("Enter")
    /\ \/ MovesToAnchor /\ \E r \in EnterResults : BodyReturns(r)
       \/ BodyReturns(Err("clear")) /\ UNCHANGED moved_to

\* KeyCode::Esc | KeyCode::Char('q') => { disable_raw_mode()?; execute!(..)?; return .. }
ListCancel ==
    /\ pc = "list_read"
    /\ raw_mode' = FALSE
    /\ last' = Pressed("Esc")
    /\ \/ MovesToAnchor /\ BodyReturns(CancelResult)
       \/ BodyReturns(Err("clear")) /\ UNCHANGED moved_to

\* terminal::disable_raw_mode()?; result      (after the closure)
ListCleanup ==
    /\ pc = "list_cleanup"
    /\ raw_mode' = FALSE
    /\ result' = body_result
    /\ pc' = "returned"
    /\ UNCHANGED <<body_result, cursor_visible, pagerVars, listVars, last>>

----------------------------------------------------------------------------
(* interactive_cl_select_with_delete: the modal sub-flows of 'd', 'u', 's'.  *)
(* The results of the external tool (p4, the config file) and the typed      *)
(* answers are chosen freely; an inner selector is one call that enables raw *)
(* mode on entry and has released it when it returns.                        *)

\* A step of a sub-flow that keeps the widget's state.
ClStep(next, raw) ==
    /\ pc' = next
    /\ raw_mode' = raw
    /\ UNCHANGED <<result, body_result, cursor_visible, pagerVars, listVars, last>>

\* A step of a sub-flow that ends the closure with `res`.
ClEnds(res, raw) ==
    /\ BodyReturns(res)
    /\ raw_mode' = raw
    /\ UNCHANGED <<last, moved_to>>

\* 'd' | 'D': disable_raw_mode, clear the menu, print the question
ClDelete ==
    /\ pc = "list_read"
    /\ widget = "cl_select"
    /\ raw_mode' = FALSE
    /\ last' = Pressed("d")
    /\ \/ /\ pc' = "d_confirm"
          /\ presses' = Mixed
          /\ MovesToAnchor
          /\ UNCHANGED <<result, body_result, cursor_visible, pagerVars, listData,
                         selected_idx, selected_set, start_pos, render_pos,
                         first_render, end_pos, queries, first_top, scrolled, shown>>
       \/ BodyReturns(Err("clear")) /\ UNCHANGED moved_to

\* read_line, then the deletion or "Deletion cancelled." and enable_raw_mode
ClDeleteAnswer ==
    /\ pc = "d_confirm"
    /\ \/ ClEnds(Err("read_line"), raw_mode)
       \/ ClEnds(Ok(Some(items[selected_idx + 1])), raw_mode)   \* answer == "yes"
       \/ ClEnds(Err("p4"), raw_mode)                           \* "yes", and a `?` fails
       \/ ClStep("list_render", TRUE)                                \* any other answer
       \/ ClEnds(Err("enable_raw_mode"), raw_mode)

\* (mutant) 's' clears the menu and prints the diff with raw mode left on
ClShowKeepsRaw ==
    /\ pc = "list_read"
    /\ widget = "cl_select"
    /\ raw_mode' = raw_mode
    /\ last' = Pressed("s")
    /\ \/ /\ pc' = "s_shown"
          /\ presses' = Mixed
          /\ MovesToAnchor
          /\ UNCHANGED <<result, body_result, cursor_visible, pagerVars, listData,
                         selected_idx, selected_set, start_pos, render_pos,
                         first_render, end_pos, queries, first_top, scrolled, shown>>
       \/ BodyReturns(Err("clear")) /\ UNCHANGED moved_to
       \/ BodyReturns(Err("p4")) /\ MovesToAnchor

\* 's' | 'S': disable_raw_mode, clear the menu, print the diff
ClShow ==
    /\ pc = "list_read"
    /\ widget = "cl_select"
    /\ raw_mode' = FALSE
    /\ last' = Pressed("s")
    /\ \/ /\ pc' = "s_shown"
          /\ presses' = Mixed
          /\ MovesToAnchor
          /\ UNCHANGED <<result, body_result, cursor_visible, pagerVars, listData,
                         selected_idx, selected_set, start_pos, render_pos,
                         first_render, end_pos, queries, first_top, scrolled, shown>>
       \/ BodyReturns(Err("clear")) /\ UNCHANGED moved_to
       \/ BodyReturns(Err("p4")) /\ MovesToAnchor

\* println!("Press 'q' to return..."); terminal::enable_raw_mode()?;
ClShowEnable ==
    /\ pc = "s_shown"
    /\ \/ ClStep("s_wait", TRUE)
       \/ ClEnds(Err("enable_raw_mode"), raw_mode)

\* loop { if let Event::Key(..) = event::read()? { if q | Q | Esc { break } } }
ClShowWait ==
    /\ pc = "s_wait"
    /\ \/ ClStep("list_render", raw_mode)
       \/ ClStep("s_wait", raw_mode)
       \/ ClEnds(Err("read"), raw_mode)

\* 'u' | 'U': disable_raw_mode, clear the menu, get_shelved_files, the client check
ClUnshelve ==
    /\ pc = "list_read"
    /\ widget = "cl_select"
    /\ raw_mode' = FALSE
    /\ last' = Pressed("u")
    /\ \/ /\ pc' \in {"u_pause", "u_ask", "u_files"}
          /\ presses' = Mixed
          /\ MovesToAnchor
          /\ UNCHANGED <<result, body_result, cursor_visible, pagerVars, listData,
                         selected_idx, selected_set, start_pos, render_pos,
                         first_render, end_pos, queries, first_top, scrolled, shown>>
       \/ BodyReturns(Err("clear")) /\ UNCHANGED moved_to
       \/ BodyReturns(Err("p4")) /\ MovesToAnchor

\* "Do you want to unshelve to a different CL? (y/N)": read_line
ClUnshelveAsk ==
    /\ pc = "u_ask"
    /\ \/ ClStep("u_dest", raw_mode)          \* "y" | "yes"
       \/ ClStep("u_files", raw_mode)         \* any other answer
       \/ ClEnds(Err("read_line"), raw_mode)
       \/ ClEnds(Err("p4"), raw_mode)

\* interactive_select_with_desc(&empty_cls, ..) is entered
ClDestEnter ==
    /\ pc = "u_dest"
    /\ \/ ClStep("u_dest_in", TRUE)
       \/ ClEnds(Err("position"), raw_mode)
       \/ ClEnds(Err("enable_raw_mode"), raw_mode)

\* .. and returns Some(target), None or an error
ClDestReturn ==
    /\ pc = "u_dest_in"
    /\ \/ ClStep("u_files", FALSE)
       \/ ClStep("u_resume", FALSE)
       \/ ClEnds(Err("inner"), FALSE)
       \/ ClEnds(Err("p4"), FALSE)

\* interactive_file_select(&shelved_files, .., true) is entered
ClFilesEnter ==
    /\ pc = "u_files"
    /\ \/ ClStep("u_files_in", TRUE)
       \/ ClEnds(Err("position"), raw_mode)
       \/ ClEnds(Err("enable_raw_mode"), raw_mode)

\* .. and returns an empty vec, a selection (then the unshelve runs) or an error
ClFilesReturn ==
    /\ pc = "u_files_in"
    /\ \/ ClStep("u_resume", FALSE)
       \/ ClStep("u_pause", FALSE)
       \/ ClEnds(Err("inner"), FALSE)
       \/ ClEnds(Err("p4"), FALSE)

\* (mutant) the menu is resumed without enable_raw_mode
ClResumeNoEnable ==
    /\ pc = "u_resume"
    /\ \/ ClStep("list_render", raw_mode)
       \/ ClEnds(Err("enable_raw_mode"), raw_mode)

\* println!("Cancelled." / "No files selected."); terminal::enable_raw_mode()?; continue;
ClResume ==
    /\ pc = "u_resume"
    /\ \/ ClStep("list_render", TRUE)
       \/ ClEnds(Err("enable_raw_mode"), raw_mode)

\* println!("Press any key to continue..."); terminal::enable_raw_mode()?;
ClPause ==
    /\ pc = "u_pause"
    /\ \/ ClStep("u_anykey", TRUE)
       \/ ClEnds(Err("enable_raw_mode"), raw_mode)

\* event::read()?;
ClAnyKey ==
    /\ pc = "u_anykey"
    /\ \/ ClStep("list_render", raw_mode)
       \/ ClEnds(Err("read"), raw_mode)

NextList ==
    \/ ListStart
    \/ ListEnableRaw
    \/ ListRender
    \/ ListReadFails
    \/ ListUp
    \/ ListDown
    \/ ListTab
    \/ ListBackTab
    \/ ListSpace
    \/ ListOtherKey
    \/ ListEnter
    \/ ListCancel
    \/ ListCleanup
    \/ ClDelete
    \/ ClDeleteAnswer
    \/ ClShow
    \/ ClShowEnable
    \/ ClShowWait
    \/ ClUnshelve
    \/ ClUnshelveAsk
    \/ ClDestEnter
    \/ ClDestReturn
    \/ ClFilesEnter
    \/ ClFilesReturn
    \/ ClResume
    \/ ClPause
    \/ ClAnyKey

SpecList == InitList /\ [][NextList]_vars

----------------------------------------------------------------------------
(* The commands around the list widgets: what each one hands to a widget,   *)
(* the tracked changelists of ~/.pconfig, and the loop of cmd_ls.           *)
(* The widget a command calls is one step here (its keys, frames and        *)
(* terminal modes are the subject of the sections above); the widget of     *)
(* cmd_ls is followed key by key, without its screen geometry.              *)

\* Lines a ~/.pconfig can hold: two names, a name with blanks around it, a blank line.
ConfigLines == {"9", "10", " 9 ", ""}

\* Names the commands pass to add_tracked_cl: trimmed, non-empty (288 .. 2320).
TrackNames == {"9", "10"}

\* Lines typed at "Type 'yes' to confirm deletion:"
Answers == {"yes", " YES ", "y", "no", ""}

\* str::trim on the model's lines
trim(l) ==
    CASE l = " 9 "   -> "9"
      [] l = " YES " -> "YES"
      [] OTHER       -> l

\* input.trim().to_lowercase()
TrimLower(l) == IF trim(l) = "YES" THEN "yes" ELSE trim(l)

Range(s) == {s[i] : i \in 1..Len(s)}

\* content.lines().filter(|line| !line.trim().is_empty()).map(|line| line.trim().to_string())
read_tracked_cls(c) ==
    LET kept == SelectSeq(c, LAMBDA l : trim(l) # "")
    IN  [i \in 1..Len(kept) |-> trim(kept[i])]

\* std::fs::write(config_path, cls.join("\n")): one line per name
write_tracked_cls(cls) == cls

\* (mutant) the name is pushed whether or not the list holds it
add_tracked_cl_always(c, cl) == write_tracked_cls(Append(read_tracked_cls(c), cl))

\* if !cls.contains(cl) { cls.push(cl); write_tracked_cls(&cls)?; }
add_tracked_cl(c, cl) ==
    IF cl \in Range(read_tracked_cls(c)) THEN c
    ELSE write_tracked_cls(Append(read_tracked_cls(c), cl))

\* cls.retain(|c| c != cl); write_tracked_cls(&cls)?;
remove_tracked_cl(c, cl) ==
    write_tracked_cls(SelectSeq(read_tracked_cls(c), LAMBDA x : x # cl))

Tracked == read_tracked_cls(config)
OpenedCls == Range(opened)

\* cl_file_count: the number of opened files of a changelist
Count(fs, cl) == Cardinality({i \in 1..Len(fs) : fs[i] = cl})

\* cmd_ls: cls.sort_by(parse::<i64>() of both, else String::cmp)
LsLess(a, b) ==
    IF parse_i64(a) # None /\ parse_i64(b) # None
    THEN parse_i64(a)[1] < parse_i64(b)[1]
    ELSE StrRank(a) < StrRank(b)

RECURSIVE SortLs(_)
SortLs(S) ==
    IF S = {} THEN <<>>
    ELSE LET m == CHOOSE x \in S : \A y \in S \ {x} : LsLess(x, y)
         IN  <<m>> \o SortLs(S \ {m})

\* all_cls.sort()
RECURSIVE SortStr(_)
SortStr(S) ==
    IF S = {} THEN <<>>
    ELSE LET m == CHOOSE x \in S : \A y \in S \ {x} : StrRank(x) < StrRank(y)
         IN  <<m>> \o SortStr(S \ {m})

\* opened.sort_by(changelist): the files of each changelist together
RECURSIVE Grouped(_, _)
Grouped(fs, cls) ==
    IF cls = <<>> THEN <<>>
    ELSE SelectSeq(fs, LAMBDA f : f = Head(cls)) \o Grouped(fs, Tail(cls))

SortedOpened == Grouped(opened, SortCls(OpenedCls))

\* if !cls.contains("default") { cls.insert(0, "default") }
WithDefault(cls) == IF "default" \in Range(cls) THEN cls ELSE <<"default">> \o cls

\* perforce::get_shelved_files(cl): the shelved files of one changelist
Shelved(cl) == {[i \in 1..n |-> cl] : n \in 0..MaxOpened}

cmdsRest == <<raw_mode, cursor_visible, running, spinner, spin_idx, textVars, lines,
              term_height, viewVars, query, nav, wrapped, selected_set, presses,
              geoVars, last>>

InitCmds ==
    /\ pc = "shell"
    /\ raw_mode = FALSE
    /\ cursor_visible = TRUE
    /\ result = NoResult
    /\ body_result = NoResult
    /\ NoList
    /\ NoText
    /\ running = FALSE
    /\ spinner = "none"
    /\ spin_idx = 0
    /\ lines = <<>>
    /\ term_height = 0
    /\ top_line = 0
    /\ search_query = None
    /\ search_matches = <<>>
    /\ current_match_idx = None
    /\ query = <<>>
    /\ nav = NoNav
    /\ last = NoKey
    /\ config \in SeqsUpTo(ConfigLines, MaxTracked)
    /\ opened \in SeqsUpTo(CLNames, MaxOpened)
    /\ file_counts = <<>>
    /\ answer = None
    /\ cfg_op = NoOp
    /\ inner_items = <<>>

\* The command is over: `res` goes to main, the widget's data goes out of scope.
Ends(res, body) ==
    /\ pc' = "shell"
    /\ result' = res
    /\ body_result' = body
    /\ widget' = "none"
    /\ files' = <<>>
    /\ pre_select_all' = FALSE
    /\ items' = <<>>
    /\ selected_idx' = 0
    /\ file_counts' = <<>>
    /\ inner_items' = <<>>
    /\ UNCHANGED cmdsRest

\* A command that fails or returns before it touches the workspace.
Returns(res) ==
    /\ Ends(res, NoResult)
    /\ answer' = None
    /\ cfg_op' = NoOp
    /\ UNCHANGED <<config, opened>>

\* interactive_select_with_desc(&its, ..) / interactive_file_select(&fs, .., pre) is called
Calls(w, fs, its, pre) ==
    /\ pc' = "called"
    /\ widget' = w
    /\ files' = fs
    /\ pre_select_all' = pre
    /\ items' = its
    /\ selected_idx' = 0
    /\ result' = NoResult
    /\ body_result' = NoResult
    /\ answer' = None
    /\ cfg_op' = NoOp
    /\ UNCHANGED <<config, opened, file_counts, inner_items, cmdsRest>>

CallsSelect(its) == Calls("select_with_desc", <<>>, its, FALSE)
CallsFileSelect(fs, pre) == Calls("file_select", fs, BuildItems(fs), pre)

\* cmd_change: options = ["[Create new CL]"] + cls
CmdChange ==
    /\ pc = "shell"
    /\ \/ Returns(Err("p4"))
       \/ CallsSelect(<<"[Create new CL]">> \o SortCls(OpenedCls))

\* cmd_reopen / cmd_revert: if opened.is_empty() { return Ok(()) }; the file selector
CmdReopen ==
    /\ pc = "shell"
    /\ \/ Returns(Err("p4"))
       \/ IF opened = <<>> THEN Returns(Ok("unit"))
          ELSE CallsFileSelect(SortedOpened, FALSE)

\* cmd_reopen, after a selection: dest_cls = opened and tracked CLs, "default", "new"
CmdReopenDest ==
    /\ pc = "shell"
    /\ opened # <<>>
    /\ \/ Returns(Err("read_tracked_cls"))
       \/ CallsSelect(Append(WithDefault(SortCls(OpenedCls \cup Range(Tracked))), "new"))

\* (mutant) cmd_diff without `if keys.is_empty() { return Ok(()) }`
CmdDiffUnguarded ==
    /\ pc = "shell"
    /\ \/ Returns(Err("p4"))
       \/ CallsSelect(SortCls(OpenedCls))

\* cmd_diff / cmd_shelve: keys of the opened files; if keys.is_empty() { return Ok(()) }
CmdDiff ==
    /\ pc = "shell"
    /\ \/ Returns(Err("p4"))
       \/ IF SortCls(OpenedCls) = <<>> THEN Returns(Ok("unit"))
          ELSE CallsSelect(SortCls(OpenedCls))

\* cmd_open / cmd_add: cls of the opened files, "default", "[Create new CL]" in front
CmdOpen ==
    /\ pc = "shell"
    /\ \/ Returns(Err("p4"))
       \/ CallsSelect(<<"[Create new CL]">> \o WithDefault(SortCls(OpenedCls)))

\* cmd_unshelve: options = tracked CLs without opened files + "[Enter CL number manually]"
CmdUnshelve ==
    /\ pc = "shell"
    /\ \/ Returns(Err("read_tracked_cls"))
       \/ LET empty_cls == SelectSeq(Tracked, LAMBDA cl : cl \notin OpenedCls \ {"default"})
              options == Append(empty_cls, "[Enter CL number manually]")
          IN  IF options # <<>> THEN CallsSelect(options) ELSE Returns(Ok("unit"))

\* cmd_unshelve, other client: all_cls = opened CLs sorted, "default", "[Create new CL]"
CmdUnshelveDest ==
    /\ pc = "shell"
    /\ \/ Returns(Err("p4"))
       \/ CallsSelect(<<"[Create new CL]">> \o WithDefault(SortStr(OpenedCls)))

\* cmd_unshelve: if shelved_files.is_empty() { return Ok(()) }; the file selector
CmdUnshelveFiles ==
    /\ pc = "shell"
    /\ \/ Returns(Err("p4"))
       \/ \E cl \in TrackNames : \E shelved_files \in Shelved(cl) :
              IF shelved_files = <<>> THEN Returns(Ok("unit"))
              ELSE CallsFileSelect(shelved_files, TRUE)

\* The called widget returns and the command runs to its end; it may track a changelist.
CmdRest ==
    /\ pc = "called"
    /\ \/ Returns(Ok("unit"))
       \/ Returns(Err("p4"))
       \/ \E cl \in TrackNames :
              /\ Len(add_tracked_cl(config, cl)) <= MaxTracked
              /\ config' = add_tracked_cl(config, cl)
              /\ cfg_op' = [op |-> "add", cl |-> cl, before |-> Tracked]
              /\ Ends(Ok("unit"), NoResult)
              /\ answer' = None
              /\ UNCHANGED opened

\* cmd_ls, top of the loop: tracked and opened CLs, sorted;
\* if cls.is_empty() { return Ok(()) }; interactive_cl_select_with_delete(&cls, ..)
LsBuild ==
    /\ pc \in {"shell", "ls_loop"}
    /\ \/ Returns(Err("read_tracked_cls"))
       \/ LET cls == SortLs(Range(Tracked) \cup (OpenedCls \ {"default"}))
          IN  IF cls = <<>> THEN Returns(Ok("unit"))
              ELSE /\ pc' = "ls_widget"
                   /\ widget' = "cl_select"
                   /\ items' = cls
                   /\ selected_idx' = 0
                   /\ file_counts' = [cl \in Range(cls) |-> Count(opened, cl)]
                   /\ result' = NoResult
                   /\ body_result' = NoResult
                   /\ answer' = None
                   /\ cfg_op' = NoOp
                   /\ UNCHANGED <<config, opened, files, pre_select_all, inner_items,
                                  cmdsRest>>

\* A key of the tracked-changelist list that keeps the list on screen.
LsKeeps(idx) ==
    /\ pc = "ls_widget"
    /\ pc' = "ls_widget"
    /\ selected_idx' = idx
    /\ answer' = None
    /\ UNCHANGED <<result, body_result, widget, pre_select_all, items, wrapped,
                   file_counts, cmdsRest>>

\* KeyCode::Up: selected_idx - 1, or items.len() - 1 from the first item
LsUp ==
    /\ LsKeeps(IF selected_idx > 0 THEN selected_idx - 1 ELSE Len(items) - 1)
    /\ selected_idx' # selected_idx
    /\ cfg_op' = NoOp
    /\ UNCHANGED <<config, opened, files, inner_items>>

\* KeyCode::Down: selected_idx + 1, or 0 from the last item
LsDown ==
    /\ LsKeeps(IF selected_idx < Len(items) - 1 THEN selected_idx + 1 ELSE 0)
    /\ selected_idx' # selected_idx
    /\ cfg_op' = NoOp
    /\ UNCHANGED <<config, opened, files, inner_items>>

\* A step of the 'u' sub-flow that leaves the workspace alone.
LsSub(next, fs, inner) ==
    /\ pc' = next
    /\ files' = fs
    /\ inner_items' = inner
    /\ answer' = None
    /\ cfg_op' = NoOp
    /\ UNCHANGED <<result, body_result, widget, pre_select_all, items, wrapped,
                   selected_idx, file_counts, config, opened, cmdsRest>>

\* A `?` of the 'u' sub-flow fails: the widget and cmd_ls end with the error.
LsFails(origin) ==
    /\ Ends(Err(origin), Err(origin))
    /\ answer' = None
    /\ cfg_op' = NoOp
    /\ UNCHANGED <<config, opened>>

\* tracked CLs without opened files, sorted, then "[Create new CL]"
DestItems ==
    Append(SortLs({cl \in Range(Tracked) : Count(opened, cl) = 0}), "[Create new CL]")

\* 'u' | 'U': get_shelved_files(&cl)?; if shelved_files.is_empty() { .. continue; }
\* then the destination selector (CL of another client) or the file selector
LsUnshelve ==
    /\ pc = "ls_widget"
    /\ \/ LsFails("p4")
       \/ \E shelved_files \in Shelved(items[selected_idx + 1]) :
              IF shelved_files = <<>> THEN LsSub("ls_widget", <<>>, <<>>)
              ELSE \/ LsSub("ls_dest", shelved_files, DestItems)
                   \/ LsSub("ls_files", shelved_files, BuildItems(shelved_files))

\* interactive_select_with_desc(&empty_cls, ..) returns: Some(target), None
\* ("Cancelled.", continue) or an error
LsDestReturns ==
    /\ pc = "ls_dest"
    /\ \/ LsSub("ls_files", files, BuildItems(files))
       \/ LsSub("ls_widget", <<>>, <<>>)
       \/ LsFails("inner")

\* interactive_file_select(&shelved_files, .., true) returns: nothing selected
\* (continue), a selection that is unshelved (then add_tracked_cl(&cl)?), or an error
LsFilesReturns ==
    /\ pc = "ls_files"
    /\ \/ LsSub("ls_widget", <<>>, <<>>)
       \/ LsFails("inner")
       \/ LET cl == items[selected_idx + 1]
          IN  /\ Len(opened) < MaxOpened
              /\ Len(add_tracked_cl(config, cl)) <= MaxTracked
              /\ opened' = Append(opened, cl)
              /\ config' = add_tracked_cl(config, cl)
              /\ cfg_op' = [op |-> "add", cl |-> cl, before |-> Tracked]
              /\ pc' = "ls_widget"
              /\ files' = <<>>
              /\ inner_items' = <<>>
              /\ answer' = None
              /\ UNCHANGED <<result, body_result, widget, pre_select_all, items, wrapped,
                             selected_idx, file_counts, cmdsRest>>

\* 'd' | 'D': the menu is cleared and the question printed
LsDelete ==
    /\ pc = "ls_widget"
    /\ pc' = "ls_confirm"
    /\ answer' = None
    /\ cfg_op' = NoOp
    /\ UNCHANGED <<result, body_result, listData, selected_idx, file_counts, config,
                   opened, inner_items, cmdsRest>>

\* (mutant) "y" confirms as well
ConfirmsY(line) == TrimLower(line) \in {"yes", "y"}

\* answer == "yes"
Confirms(line) == TrimLower(line) = "yes"

\* The opened files left when the files at the positions `gone` are reverted.
Without(fs, gone) ==
    LET keep == SelectSeq([i \in 1..Len(fs) |-> i], LAMBDA i : i \notin gone)
    IN  [j \in 1..Len(keep) |-> fs[keep[j]]]

\* read_line, then: "yes": p4 revert of each opened file of the changelist (a
\* failed revert is reported and skipped), remove_tracked_cl(cl)?, Ok(Some(cl));
\* any other answer: "Deletion cancelled.", enable_raw_mode()?, the loop goes on
LsAnswer ==
    /\ pc = "ls_confirm"
    /\ LET cl == items[selected_idx + 1]
           mine == {i \in 1..Len(opened) : opened[i] = cl}
       IN  \/ /\ Ends(Err("read_line"), Err("read_line"))
              /\ answer' = None
              /\ cfg_op' = NoOp
              /\ UNCHANGED <<config, opened>>
           \/ \E line \in Answers :
                  /\ answer' = Some(line)
                  /\ IF Confirms(line)
                     THEN \E gone \in (IF file_counts[cl] > 0 THEN SUBSET mine ELSE {{}}) :
                              /\ opened' = Without(opened, gone)
                              /\ \/ /\ config' = remove_tracked_cl(config, cl)
                                    /\ cfg_op' = [op |-> "remove", cl |-> cl, before |-> Tracked]
                                    /\ pc' = "ls_loop"
                                    /\ result' = NoResult
                                    /\ body_result' = Ok(Some(cl))
                                    /\ widget' = "none"
                                    /\ items' = <<>>
                                    /\ selected_idx' = 0
                                    /\ file_counts' = <<>>
                                    /\ UNCHANGED <<files, pre_select_all, inner_items,
                                                   cmdsRest>>
                                 \/ /\ Ends(Err("p4"), Err("p4"))
                                    /\ cfg_op' = NoOp
                                    /\ UNCHANGED config
                     ELSE /\ cfg_op' = NoOp
                          /\ UNCHANGED <<config, opened>>
                          /\ \/ /\ pc' = "ls_widget"
                                /\ UNCHANGED <<result, body_result, listData, selected_idx,
                                               file_counts, inner_items, cmdsRest>>
                             \/ Ends(Err("enable_raw_mode"), Err("enable_raw_mode"))

\* KeyCode::Esc | KeyCode::Char('q') => return Ok(None); cmd_ls: None => return Ok(())
LsCancel ==
    /\ pc = "ls_widget"
    /\ Ends(Ok("unit"), Ok(None))
    /\ answer' = None
    /\ cfg_op' = NoOp
    /\ UNCHANGED <<config, opened>>

NextCmds ==
    \/ CmdChange
    \/ CmdReopen
    \/ CmdReopenDest
    \/ CmdDiff
    \/ CmdOpen
    \/ CmdUnshelve
    \/ CmdUnshelveDest
    \/ CmdUnshelveFiles
    \/ CmdRest
    \/ LsBuild
    \/ LsUp
    \/ LsDown
    \/ LsUnshelve
    \/ LsDestReturns
    \/ LsFilesReturns
    \/ LsDelete
    \/ LsAnswer
    \/ LsCancel

SpecCmds == InitCmds /\ [][NextCmds]_vars

\* Every interactive command.
Init == InitPager \/ InitList
Next == NextPager \/ NextList
Spec == Init /\ [][Next]_vars

----------------------------------------------------------------------------
(* Properties *)

Total == Len(lines)
\* max(0, total - height)
MaxTop == Max(0, Total - visible_lines)

\* C1: every interactive command, on every return path (confirm, cancel, or the
\* failure of any terminal operation), returns to its caller with raw mode
\* disabled and the cursor visible.
C1_ReleasedOnEveryReturn ==
    pc = "returned" => (~raw_mode /\ cursor_visible)

\* C2: when an operation of a widget's render/input loop fails, the error it
\* raised is returned to the widget's caller only after raw mode was disabled.
LoopErrors == {Err("viewer"), Err("frame"), Err("read")}
C3_CancelDiffersFromEmptyConfirm ==
    (pc = "returned" /\ widget = "file_select" /\ last.key = "Esc")
        => result \notin ConfirmResults({})

\* C4: n presses of Down from cursor 0 leave the cursor at n mod L, and n presses
\* of Up leave it at (-n) mod L, in each of the three list widgets.
C4_DownUpModulo ==
    LET L == Len(items)
    IN  /\ presses.kind = "down" => selected_idx = presses.n % L
        /\ presses.kind = "up"   => selected_idx = (L - (presses.n % L)) % L
C4_Witness ==
    /\ presses.kind = "down"
    /\ Len(items) >= 2
    /\ presses.n > Len(items)
    /\ selected_idx # 0

\* C5: after any sequence of keys on a list widget with a non-empty item
\* sequence, 0 <= cursor < len(items).
C5_CursorInRange ==
    widget # "none" => (0 <= selected_idx /\ selected_idx < Len(items))
C5_Witness ==
    /\ last.key = "BackTab"
    /\ last.idx = 0
    /\ selected_idx > 0

\* C6: Space on a Header selects every leaf of the group unless all of them are
\* already selected, and then deselects every leaf of the group; a partially
\* selected group never becomes empty.
GroupOf(cl) == {i \in 0..(Len(files) - 1) : files[i + 1] = cl}
C6_HeaderToggle ==
    (last.key = "Space" /\ items[last.idx + 1].kind = "ClHeader")
        => LET g == GroupOf(items[last.idx + 1].cl)
           IN  IF g \subseteq last.set
               THEN selected_set \cap g = {}
               ELSE g \subseteq selected_set
C6_Witness ==
    /\ last.key = "Space"
    /\ items[last.idx + 1].kind = "ClHeader"
    /\ LET g == GroupOf(items[last.idx + 1].cl)
       IN  /\ g \cap last.set # {}
           /\ ~(g \subseteq last.set)
           /\ g \subseteq selected_set

\* C7: after any sequence of pager commands, 0 <= top_line <= max(0, total - height).
C7_TopLineInRange ==
    pc \in {"render", "read", "search"} => (0 <= top_line /\ top_line <= MaxTop)

\* C8: PageDown sets top_line to min(top_line + height, max(0, total - height));
\* PageUp sets it to max(0, top_line - height).
C8_PageStep ==
    /\ last.key = "PageDown" => top_line = Min(last.top + visible_lines, MaxTop)
    /\ last.key = "PageUp"   => top_line = Max(0, last.top - visible_lines)

\* C9: from any viewport state End sets top_line = max(0, total - height) and
\* Home sets top_line = 0.
C9_HomeEnd ==
    /\ last.key = "End"  => top_line = MaxTop
    /\ last.key = "Home" => top_line = 0
C9_Witness ==
    /\ last.key = "End"
    /\ last.top > top_line
    /\ top_line > 0

\* C10: after the commit of a non-empty query q, search_matches is the strictly
\* ascending list of exactly the line indices with a field (changelist id, user,
\* date, text) that contains q, both compared case-insensitively.
ContainsCI(s, q) ==
    \E off \in 0..(Len(s) - Len(q)) :
        \A k \in 1..Len(q) : LowerChar(s[off + k]) = LowerChar(q[k])
AnyFieldContainsCI(line, q) ==
    \E f \in {line.cl_number, line.username, line.date, line.line_content} :
        ContainsCI(f, q)
C10_MatchesExact ==
    (last.key = "search_enter" /\ last.typed # <<>>)
        => /\ \A k \in 1..(Len(search_matches) - 1) :
                  search_matches[k] < search_matches[k + 1]
           /\ \A k \in 1..Len(search_matches) : search_matches[k] \in 0..(Total - 1)
           /\ \A i \in 0..(Total - 1) :
                  (\E k \in 1..Len(search_matches) : search_matches[k] = i)
                      <=> AnyFieldContainsCI(lines[i + 1], last.typed)
C10_Witness ==
    /\ last.key = "search_enter"
    /\ last.typed = <<"q", "N">>
    /\ search_matches = <<0, 2>>

\* C11: on the commit of a non-empty query, if there are matches then
\* current_match = 0 and top_line = max(0, matches[0] - height/2); if there are
\* none then current_match = none and top_line is what it was before the search.
C11_CommitJump ==
    (last.key = "search_enter" /\ last.typed # <<>>)
        => IF search_matches # <<>>
           THEN /\ current_match_idx = Some(0)
                /\ top_line = Max(0, search_matches[1] - (visible_lines \div 2))
           ELSE /\ current_match_idx = None
                /\ top_line = last.top
C11_Witness ==
    /\ last.key = "search_enter"
    /\ search_matches # <<>>
    /\ search_matches[1] > top_line
    /\ top_line > 0
    /\ top_line # last.top


\* C12: with k = len(matches) >= 1 and a current match i, 'n' sets current_match
\* to (i+1) mod k and 'p'/'N' to (i-1) mod k; k presses of 'n', or 'n' then 'p',
\* come back to the match they started from; after each navigation
\* top_line = max(0, matches[current_match] - height/2). With no current match
\* the three keys change nothing.
C12_MatchNavigation ==
    LET k == Len(search_matches)
        Centered == top_line = Max(0, search_matches[current_match_idx[1] + 1]
                                         - (visible_lines \div 2))
        Same == /\ current_match_idx = last.cur
                /\ top_line = last.top
                /\ search_matches = last.sm
                /\ search_query = last.sq
    IN  /\ (last.key = "n" /\ last.cur # None)
            => k >= 1 /\ current_match_idx = Some((last.cur[1] + 1) % k) /\ Centered
        /\ (last.key = "p" /\ last.cur # None)
            => k >= 1 /\ current_match_idx = Some((last.cur[1] + k - 1) % k) /\ Centered
        /\ (last.key \in {"n", "p"} /\ last.cur = None) => Same
        /\ (nav.kind = "n" /\ nav.n = k) => current_match_idx = Some(nav.from)
        /\ nav.kind = "np" => current_match_idx = Some(nav.from)
C12_Witness ==
    /\ nav.kind = "n"
    /\ nav.n = Len(search_matches)
    /\ nav.n >= 3
    /\ nav.from = 1
    /\ last.key = "n"
    /\ top_line > 0


\* C16: leaving the search prompt with Esc leaves the committed query, the
\* matches, current_match and top_line exactly as they were when '/' was pressed,
\* whatever was typed in between.
C16_EscKeepsSearch ==
    last.key = "search_esc"
        => /\ search_query = last.sq
           /\ search_matches = last.sm
           /\ current_match_idx = last.cur
           /\ top_line = last.top
C16_Witness ==
    /\ last.key = "search_esc"
    /\ Len(last.typed) = MaxQuery
    /\ search_query # None
    /\ search_query[1] # to_lowercase(last.typed)
    /\ current_match_idx = Some(1)
    /\ top_line > 0


\* C13: interactive_select_with_desc returns, on Enter, a present result equal to
\* items[cursor] for the cursor at the moment of the key, and on Esc or 'q' an
\* absent result; a returned value is always a member of the supplied items.
\* (A failing terminal operation makes either key return that error instead.)
C13_SingleSelectResult ==
    (pc = "returned" /\ widget = "select_with_desc")
        => /\ last.key = "Enter" => result \in {Ok(Some(items[last.idx + 1])), Err("clear")}
           /\ last.key = "Esc" => result \in {Ok(None), Err("clear")}
           /\ (result # NoResult /\ result[1] = "Ok" /\ result[2] # None)
                  => \E i \in 1..Len(items) : result[2] = Some(items[i])
C13_Witness ==
    /\ pc = "returned"
    /\ widget = "select_with_desc"
    /\ last.key = "Enter"
    /\ last.idx = 2
    /\ items[3] # items[1]
    /\ result = Ok(Some(items[3]))

\* C14: in interactive_file_select Enter returns exactly the leaves whose indices
\* are in the SelectionSet at that moment, each once and no other, and the
\* SelectionSet starts as every leaf when pre_select_all is set.
AllLeaves == 0..(Len(files) - 1)
C14_MultiSelectResult ==
    /\ (widget = "file_select" /\ pc \in {"list_start", "list_enable"})
           => selected_set = IF pre_select_all THEN AllLeaves ELSE {}
    /\ (pc = "returned" /\ widget = "file_select" /\ last.key = "Enter"
            /\ result # Err("clear"))
           => /\ result[1] = "Ok"
              /\ \A i, j \in 1..Len(result[2]) : result[2][i] = result[2][j] => i = j
              /\ {result[2][i] : i \in 1..Len(result[2])} = last.set
              /\ last.set \subseteq AllLeaves
C14_Witness ==
    /\ pc = "returned"
    /\ widget = "file_select"
    /\ last.key = "Enter"
    /\ pre_select_all
    /\ Len(files) = 3
    /\ last.set = {0, 2}
    /\ result = Ok(<<2, 0>>)

\* C15: Tab moves the cursor to the first Header strictly after it, or else to
\* the first Header of the sequence; Shift-Tab to the last Header strictly
\* before it, or else to the last Header of the sequence. After either key the
\* cursor is on a Header.
Headers == {k \in 0..(Len(items) - 1) : items[k + 1].kind = "ClHeader"}
C15_TabJumps ==
    /\ last.key = "Tab"
           => LET after == {h \in Headers : h > last.idx}
              IN  /\ selected_idx = IF after # {} THEN MinOf(after) ELSE MinOf(Headers)
                  /\ selected_idx \in Headers
    /\ last.key = "BackTab"
           => LET before == {h \in Headers : h < last.idx}
              IN  /\ selected_idx = IF before # {} THEN MaxOf(before) ELSE MaxOf(Headers)
                  /\ selected_idx \in Headers
C15_Witness ==
    /\ last.key = "Tab"
    /\ Cardinality(Headers) >= 2
    /\ last.idx > MaxOf(Headers)
    /\ selected_idx = 0

\* C17: a key without a handler (and an event that is not a key) leaves the
\* widget's cursor, SelectionSet, viewport and search state unchanged, raises no
\* error, and the loop goes on to its next frame: the widget does not return.
C17_OtherKeyIgnored ==
    last.key = "other"
        => /\ selected_idx = last.idx
           /\ selected_set = last.set
           /\ top_line = last.top
           /\ search_query = last.sq
           /\ search_matches = last.sm
           /\ current_match_idx = last.cur
           /\ pc \in {"render", "list_render"}
           /\ result = NoResult
           /\ body_result = NoResult
C17_Witness ==
    /\ last.key = "other"
    /\ widget = "file_select"
    /\ pc = "list_render"
    /\ selected_idx > 0
    /\ selected_set # {}
    /\ selected_set # AllLeaves


\* C18: before the first frame of a list widget, if the rows from the cursor to
\* the bottom of the terminal are fewer than the block's height, the cursor has
\* been relocated so that the block fits, and the anchor is that position;
\* otherwise the anchor is the unmodified position of the cursor.
C18_AnchorBeforeFirstFrame ==
    (pc = "list_render" /\ first_render)
        => IF ScreenRows - start_pos[2] < lines_rendered
           THEN render_pos[2] <= Max(0, ScreenRows - lines_rendered)
           ELSE render_pos = start_pos

\* C19: after the first frame the anchor row is max(0, actual_end_row -
\* lines_printed), with actual_end_row the cursor row queried after printing and
\* lines_printed the block height; when nothing scrolled this is the original
\* row. The anchor column is never changed.
C19_AnchorCorrection ==
    /\ end_pos # None
           => /\ render_pos[2] = Max(0, end_pos[1][2] - lines_rendered)
              /\ first_top = start_pos[2] => render_pos[2] = start_pos[2]
    /\ pc \in {"list_render", "list_read"} => render_pos[1] = start_pos[1]

\* C20: in one widget invocation the anchor is corrected at most once, after the
\* first frame only: the cursor position is queried once at entry and once after
\* the first frame, never after a later frame; every frame from the second on,
\* and the clear on Enter/Esc, start at the same anchor, also after a sub-flow
\* of the tracked-changelist list has given the terminal to a prompt.
C20_AnchorFixedAfterFirstFrame ==
    [][/\ queries' <= 2
       /\ ~first_render => (~first_render' /\ render_pos' = render_pos)
       /\ (pc = "list_render" /\ pc' = "list_read" /\ ~first_render)
              => (moved_to' = Some(render_pos) /\ end_pos' = end_pos)
       /\ (pc = "list_read" /\ last'.key \in {"Enter", "Esc"}
              /\ body_result' # Err("clear"))
              => moved_to' = Some(render_pos)]_vars
C20_Witness ==
    /\ widget = "cl_select"
    /\ pc = "list_read"
    /\ presses = Mixed
    /\ queries = 2
    /\ render_pos # start_pos
    /\ moved_to = Some(render_pos)

\* C21: in a terminal of R rows and for a block of L <= R - 1 lines, whatever
\* the row the widget is entered on, the corrected anchor row is the row the
\* first line of the first frame sits on once that frame (and its scroll) is
\* printed, and no later frame scrolls the terminal: anchor row + L <= R - 1.
C21_AnchorOnFirstLine ==
    (widget # "none" /\ ~first_render /\ lines_rendered <= ScreenRows - 1)
        => /\ render_pos[2] = first_top
           /\ render_pos[2] + lines_rendered <= ScreenRows - 1
           /\ scrolled = 0

\* The positions whose next step calls terminal::enable_raw_mode(), in the
\* commands themselves or on entry of an inner selector.
EnableSites ==
    {"enable", "list_enable", "d_confirm", "s_shown", "u_dest", "u_files",
     "u_resume", "u_pause"}

\* C22: raw-mode sessions are never nested: at every call of enable_raw_mode
\* raw mode is off. In the 'u' sub-flow of the tracked-changelist list the inner
\* selectors are entered only after the outer widget disabled raw mode, they
\* hold the only session while they run, and the outer widget enables raw mode
\* again only after the inner selector returned with raw mode off.
C22_SessionsNotNested ==
    /\ pc \in EnableSites => ~raw_mode
    /\ pc \in {"u_dest_in", "u_files_in"} => (raw_mode /\ last.key = "u")
C22_Witness ==
    /\ pc = "u_resume"
    /\ widget = "cl_select"
    /\ last.key = "u"
    /\ ~raw_mode

\* C23: in the tracked-changelist list the line inputs (the 'yes' confirmation
\* of a deletion, the y/N question of an unshelve) are read with raw mode off,
\* and on every path back to the main loop raw mode is on again before the next
\* frame and key read; the single-key waits of the sub-flows also read in raw mode.
C23_LineInputOutsideRawMode ==
    /\ pc \in {"d_confirm", "u_ask"} => (~raw_mode /\ widget = "cl_select")
    /\ (pc = "list_render" /\ last.key \in {"d", "u", "s"}) => raw_mode
    /\ (widget = "cl_select" /\ pc \in {"list_read", "s_wait", "u_anykey"}) => raw_mode
C23_Witness ==
    /\ pc = "list_render"
    /\ widget = "cl_select"
    /\ last.key = "d"
    /\ raw_mode
    /\ ~first_render

\* The positions of cmd_annotate from the enabling of raw mode to its release.
InteractivePhase == {"enable", "clear_hide", "render", "read", "search", "show", "disable"}

\* C24: in cmd_annotate the spinner thread has ended (it was joined) before raw
\* mode is enabled and before the first frame of the pager: in no interleaving
\* is a write of the spinner pending once the interactive phase has begun; and
\* no step of the spinner thread changes the viewport or the search state.
C24_SpinnerJoinedBeforeViewer ==
    [][/\ (pc' \in InteractivePhase \/ (raw_mode' /\ widget' = "none"))
              => (spinner' = "done" /\ ~running')
       /\ (spinner' # spinner \/ spin_idx' # spin_idx)
              => UNCHANGED <<top_line, search_query, search_matches, current_match_idx,
                             query, lines, term_height, raw_mode, cursor_visible>>]_vars
C24_Witness ==
    /\ pc = "read"
    /\ raw_mode
    /\ spinner = "done"
    /\ ~running
    /\ lines # <<>>

\* C25: on every execution of cmd_annotate, whether the fetch of the data
\* succeeds or fails, the stop flag has been cleared and the spinner thread
\* has ended by the time cmd_annotate returns.
C25_SpinnerStoppedAtReturn ==
    (pc = "returned" /\ spinner # "none") => (~running /\ spinner = "done")

\* C26: the main loops of the multi-select list, the single-select lists and
\* the pager alternate strictly between a frame and a key read: each key read
\* of a main loop comes after exactly one full frame since the previous key
\* read (or since the loop was entered), and the frame leaves the cursor, the
\* selection, the viewport and the search state as the key handler left them.
C26_RenderReadAlternate ==
    [][/\ pc' \in {"read", "list_read"} => (last'.key = "none" /\ last'.frames = 1)
       /\ (pc \in {"render", "list_render"} /\ pc' \in {"read", "list_read"})
              => UNCHANGED <<top_line, search_query, search_matches, current_match_idx,
                             selected_idx, selected_set, items, lines>>
       /\ (pc \in {"read", "list_read"} /\ last'.key # "none")
              => pc' \notin {"read", "list_read"}]_vars
C26_Witness ==
    /\ pc = "list_read"
    /\ widget = "file_select"
    /\ presses = [kind |-> "down", n |-> 2]
    /\ last.frames = 1
    /\ ~first_render

\* C27: Space with the cursor on a Leaf flips the membership of that leaf in the
\* SelectionSet and leaves every other leaf and the cursor as they were; a
\* second Space on the same leaf gives back the SelectionSet from before.
C27_LeafToggle ==
    (last.key = "Space" /\ items[last.idx + 1].kind = "File")
        => LET leaf == items[last.idx + 1].idx
           IN  /\ (leaf \in selected_set) <=> (leaf \notin last.set)
               /\ selected_set \ {leaf} = last.set \ {leaf}
               /\ selected_idx = last.idx
               /\ SpaceSet(selected_set, items[selected_idx + 1]) = last.set
C27_Witness ==
    /\ last.key = "Space"
    /\ items[last.idx + 1].kind = "File"
    /\ items[last.idx + 1].idx \in last.set
    /\ items[last.idx + 1].idx \notin selected_set
    /\ selected_set # {}

\* The leaf indices the item sequence holds.
LeafIndices == {items[k].idx : k \in {j \in 1..Len(items) : items[j].kind = "File"}}

\* C28: Space with the cursor on a Header changes the membership of the leaves
\* of that header's group only: the leaves of every other group stay as they
\* were and the cursor does not move; and the SelectionSet never holds an
\* index that is not the index of a leaf of the files handed in.
C28_HeaderToggleLocal ==
    /\ (last.key = "Space" /\ items[last.idx + 1].kind = "ClHeader")
           => LET g == GroupOf(items[last.idx + 1].cl)
              IN  /\ selected_set \ g = last.set \ g
                  /\ selected_idx = last.idx
    /\ IF widget = "file_select"
          THEN selected_set \subseteq LeafIndices /\ selected_set \subseteq 0..(Len(files) - 1)
          ELSE selected_set = {}
C28_Witness ==
    /\ last.key = "Space"
    /\ items[last.idx + 1].kind = "ClHeader"
    /\ LET g == GroupOf(items[last.idx + 1].cl)
       IN  /\ last.set \ g # {}
           /\ AllLeaves \ (g \cup last.set) # {}
           /\ selected_set \cap g # last.set \cap g

\* C29: in every frame of the multi-select list the checkbox of a header is
\* full exactly when every leaf of its group is in the SelectionSet, empty
\* exactly when none is, and partial otherwise; it is computed from the
\* SelectionSet when the frame is drawn. The footer count is the number of
\* leaves in the SelectionSet.
C29_CheckboxDerived ==
    (widget = "file_select" /\ pc = "list_read")
        => /\ Len(shown.boxes) = Len(items)
           /\ \A k \in 1..Len(items) :
                  items[k].kind = "ClHeader"
                      => LET g == GroupOf(items[k].cl)
                         IN  /\ shown.boxes[k] \in {"full", "partial", "empty"}
                             /\ shown.boxes[k] = "full" <=> g \subseteq selected_set
                             /\ shown.boxes[k] = "empty" <=> g \cap selected_set = {}
           /\ shown.count = Cardinality({i \in AllLeaves : i \in selected_set})
C29_Witness ==
    /\ widget = "file_select"
    /\ pc = "list_read"
    /\ \E k \in 1..Len(items) : items[k].kind = "ClHeader" /\ shown.boxes[k] = "partial"
    /\ \E k \in 1..Len(items) : items[k].kind = "ClHeader" /\ shown.boxes[k] = "full"
    /\ shown.count = 2

\* The flat item sequence is a Header followed by the leaves of its group in
\* input order, group after group, each input leaf once.
ItemsGrouped ==
    /\ items # <<>>
    /\ items[1].kind = "ClHeader"
    /\ \A k \in 1..Len(items) :
           items[k].kind = "ClHeader"
               => LET g == GroupOf(items[k].cl)
                      n == Cardinality(g)
                  IN  /\ n >= 1
                      /\ k + n <= Len(items)
                      /\ \A j \in 1..n :
                             /\ items[k + j].kind = "File"
                             /\ items[k + j].idx \in g
                             /\ Cardinality({x \in g : x < items[k + j].idx}) = j - 1
                      /\ k + n < Len(items) => items[k + n + 1].kind = "ClHeader"
    /\ \A i \in AllLeaves :
           Cardinality({k \in 1..Len(items) : items[k].kind = "File" /\ items[k].idx = i}) = 1

\* C30: the flat item sequence the multi-select list builds at entry starts
\* with a Header, every Header is immediately followed by all the leaves of its
\* group (at least one) in their input order, every input leaf index occurs
\* exactly once, and the sequence is never modified while the widget lives.
C30_ItemsBuiltOnce ==
    /\ widget = "file_select" => ItemsGrouped
    /\ [][items' = items /\ files' = files]_vars
C30_Witness ==
    /\ widget = "file_select"
    /\ pc = "list_read"
    /\ files = <<"9", "default", "9">>
    /\ ~first_render
    /\ selected_idx = 3

\* C31: line down sets top_line to min(top_line + 1, max(0, total - height)) and
\* line up sets it to max(0, top_line - 1); a line down never decreases top_line
\* and a line up never increases it, from any top_line the pager can reach.
C31_LineStep ==
    /\ last.key = "Down"
           => (top_line = Min(last.top + 1, MaxTop) /\ top_line >= last.top)
    /\ last.key = "Up"
           => (top_line = Max(0, last.top - 1) /\ top_line <= last.top)

\* C32: while the search prompt is open the viewer's keys are suspended: every
\* character key (also 'q', 'n', 'p', 'j', 'k', 'g', 'G', space) is appended to
\* the query in progress, Backspace removes its last character (nothing on an
\* empty query), and no key other than Enter or Esc changes top_line or the
\* committed search, or ends the pager.
C32_PromptSuspendsViewer ==
    [][/\ (pc = "search" /\ pc' = "search")
              => /\ UNCHANGED <<top_line, search_query, search_matches, current_match_idx>>
                 /\ last'.pkey \in TypedChars => query' = Append(query, last'.pkey)
                 /\ last'.pkey = "Backspace"
                        => query' = IF query = <<>> THEN <<>>
                                    ELSE SubSeq(query, 1, Len(query) - 1)
                 /\ last'.pkey = "other" => query' = query
                 /\ last'.pkey \in TypedChars \cup {"Backspace", "other"}
       /\ (pc = "search" /\ pc' # "search")
              => \/ last'.key \in {"search_enter", "search_esc"}
                 \/ body_result' = Err("viewer")]_vars
C32_Witness ==
    /\ pc = "search"
    /\ query = <<"q", "N">>
    /\ last.pkey = "N"
    /\ search_query # None
    /\ top_line > 0

\* C33: Enter in the search prompt with an empty query changes nothing: the
\* committed query, the matches, the current match and top_line stay as they
\* were; a search in progress is not cleared.
C33_EmptyEnterKeepsSearch ==
    (last.key = "search_enter" /\ last.typed = <<>>)
        => /\ search_query = last.sq
           /\ search_matches = last.sm
           /\ current_match_idx = last.cur
           /\ top_line = last.top
C33_Witness ==
    /\ last.key = "search_enter"
    /\ last.typed = <<>>
    /\ pc = "render"
    /\ search_query # None
    /\ search_matches # <<>>
    /\ current_match_idx = Some(1)
    /\ top_line > 0

\* C34: in every reachable state of the pager every entry of search_matches is
\* a valid line index and search_matches is strictly ascending; current_match_idx,
\* when present, is smaller than the number of matches; and once a query has been
\* committed, current_match_idx is present exactly when there are matches.
C34_MatchesWellFormed ==
    /\ \A i \in 1..Len(search_matches) :
           /\ search_matches[i] \in 0..(Len(lines) - 1)
           /\ \A j \in 1..Len(search_matches) :
                  i < j => search_matches[i] < search_matches[j]
    /\ current_match_idx # None
           => current_match_idx[1] \in 0..(Len(search_matches) - 1)
    /\ search_query # None
           => (current_match_idx # None <=> search_matches # <<>>)
    /\ search_query = None => (search_matches = <<>> /\ current_match_idx = None)
C34_Witness ==
    /\ pc = "read"
    /\ search_query # None
    /\ Len(search_matches) >= 2
    /\ Len(search_matches) < Len(lines)
    /\ current_match_idx = Some(Len(search_matches) - 1)
    /\ search_matches[Len(search_matches)] = Len(lines) - 1

\* C35: for a non-empty dataset and a viewport of at least one line, after any
\* sequence of pager commands top_line < total: every frame shows at least one
\* data line, and the start of the range the status line reports (top_line + 1)
\* never exceeds its end (end_line).
C35_FrameShowsALine ==
    (pc \in {"render", "read", "search"} /\ lines # <<>> /\ visible_lines >= 1)
        => /\ top_line < Total
           /\ end_line(top_line) - top_line >= 1
           /\ top_line + 1 <= end_line(top_line)
C35_Witness ==
    /\ pc = "read"
    /\ visible_lines >= 2
    /\ Len(lines) >= 2
    /\ top_line = Len(lines) - 1
    /\ end_line(top_line) = top_line + 1

\* C36: for every terminal width W >= 1 and every status text, the status line
\* the pager writes takes exactly W columns: it is padded with spaces when
\* shorter than W, and cut to W - 1 characters plus one ellipsis when longer.
C36_StatusFillsWidth ==
    pc = "status_written"
        => /\ DisplayWidth(rendered) = term_width
           /\ Len(text) <= term_width
                  => rendered = text \o Spaces(term_width - Len(text))
           /\ Len(text) > term_width
                  => rendered = Append(SubSeq(text, 1, term_width - 1), "ellipsis")

\* C37: every data line the pager writes takes at most the terminal's width in
\* columns, for contents made of glyphs of display width 0, 1 or 2; when a line
\* is cut no glyph is split and a single-column ellipsis stands for the cut part.
C37_DataLineFitsWidth ==
    pc = "line_written"
        => /\ DisplayWidth(rendered) <= term_width
           /\ rendered # text
                  => /\ rendered[Len(rendered)] = "ellipsis"
                     /\ \A i \in 1..(Len(rendered) - 1) : rendered[i] = text[i]


\* C38: every call of a list widget passes a non-empty item sequence: each
\* command either returns before the widget when its collection is empty or has
\* put a fixed entry into the list, so len(items) - 1 is never computed from 0.
C38_WidgetItemsNonEmpty ==
    /\ pc \in {"called", "ls_widget", "ls_confirm", "ls_dest", "ls_files"}
           => Len(items) >= 1 /\ selected_idx <= Len(items) - 1
    /\ pc \in {"ls_dest", "ls_files"} => Len(inner_items) >= 1
    /\ (pc = "called" /\ widget = "file_select") \/ pc = "ls_files" => Len(files) >= 1

C38_Witness ==
    /\ pc = "called"
    /\ opened = <<>>
    /\ Tracked = <<>>
    /\ items = <<"[Enter CL number manually]">>

\* The command ends with the error of a failed `?`.
Failed(res) == res # NoResult /\ res[1] = "Err"

\* One step of cmd_ls, without what follows a deletion.
LsStepRules ==
    LET cl == items[selected_idx + 1]
        yes == answer' # None /\ TrimLower(answer'[1]) = "yes"
        lost == Range(Tracked) \ Range(Tracked')
    IN  /\ (lost # {} \/ Len(opened') < Len(opened))
               => /\ pc = "ls_confirm"
                  /\ yes
                  /\ lost \subseteq {cl}
                  /\ \E gone \in SUBSET {i \in 1..Len(opened) : opened[i] = cl} :
                         opened' = Without(opened, gone)
        /\ (pc = "ls_confirm" /\ ~yes)
               => /\ UNCHANGED <<config, opened>>
                  /\ \/ pc' = "ls_widget" /\ UNCHANGED <<items, selected_idx>>
                     \/ Failed(result')
        /\ (body_result' # body_result /\ body_result' # NoResult
                /\ body_result'[1] = "Ok" /\ body_result'[2] # None)
               => /\ pc = "ls_confirm"
                  /\ yes
                  /\ body_result' = Ok(Some(cl))
                  /\ cl \notin Range(Tracked')
                  /\ pc' = "ls_loop"
        /\ (pc = "ls_widget" /\ body_result' = Ok(None))
               => pc' = "shell" /\ result' = Ok("unit")

\* The changelists cmd_ls lists.
LsCls == Range(Tracked) \cup (OpenedCls \ {"default"})

InLs == pc \in {"ls_widget", "ls_confirm", "ls_dest", "ls_files", "ls_loop"}

\* C39 as stated: in the tracked-changelist list a changelist leaves the tracked
\* list and its files are reverted only after 'd' and a typed "yes" (trimmed,
\* any case); any other answer changes nothing and the list goes on with the
\* same cursor; the widget hands back a changelist only after such a deletion,
\* and cmd_ls then rebuilds the list and reopens the widget; Esc ends cmd_ls.
C39_AsStated ==
    [][InLs => /\ LsStepRules
               /\ pc = "ls_loop" => pc' = "ls_widget" \/ Failed(result')]_vars

\* C39 (amended): as above, but after a deletion cmd_ls reopens the widget only
\* when the rebuilt list is not empty; when the deleted changelist was the last
\* one it prints "No tracked changelists found." and returns.
C39_DeleteNeedsYes ==
    [][InLs => /\ LsStepRules
               /\ pc = "ls_loop"
                      => \/ pc' = "ls_widget" /\ items' = SortLs(LsCls) /\ LsCls # {}
                         \/ pc' = "shell" /\ result' = Ok("unit") /\ LsCls = {}
                         \/ Failed(result')]_vars

C39_Witness ==
    /\ pc = "ls_loop"
    /\ answer = Some(" YES ")
    /\ body_result = Ok(Some("9"))
    /\ cfg_op = [op |-> "remove", cl |-> "9", before |-> <<"9">>]
    /\ Len(opened) < MaxOpened
    /\ LsCls = {}

NoDup(s) == \A i, j \in 1..Len(s) : s[i] = s[j] => i = j

\* y comes before z in s
Before(s, y, z) == \E i, j \in 1..Len(s) : i < j /\ s[i] = y /\ s[j] = z

============================================================================
